---- MODULE Spec2Model ----
(***************************************************************************)
(* md2pdf: document assembly and table-of-contents resolution.             *)
(*                                                                         *)
(* Strings are sequences of one-character strings, so that sanitising,     *)
(* trimming, escaping and suffixing are computed character by character.   *)
(***************************************************************************)
EXTENDS Integers, Sequences, FiniteSets, TLC

VARIABLES
    pc,            \* position of the running operation
    seen_ids,      \* the seen_ids set shared by generate_anchor_id calls
    prev_seen,     \* seen_ids as it was before the latest call or loop step
    gen_ret,       \* value returned by the latest generate_anchor_id call
    returned,      \* every id returned so far by generate_anchor_id, in call order
    gen_text,      \* the heading text of a run of calls on one text
    html_content,  \* extract_headers' argument: the elements of the HTML fragment
    pos,           \* index of the element the finditer loop looks at next
    headers,       \* the list extract_headers accumulates
    toc_html,      \* the latest result of generate_toc_html
    mode,          \* the operation under way: "gen", "anchor", "extract", "file",
                   \* "merge", "directory", "title_page", "styles" or "cli"
    input_paths,   \* the source files of the conversion, in the caller's order
    toc_enabled,
    title_page_enabled,
    metadata,      \* the caller's metadata argument
    file_idx,      \* index of the source file read next
    html_bodies,   \* the converted fragment of every source file read so far
    html_body,     \* html_body / combined_html: the fragment being assembled
    pdf_metadata,  \* the resolved metadata
    warned,        \* the "No H1/H2 headers found for TOC" warning was printed
    outcome,       \* "none" while running, then "ok" or the exception raised
    inner,         \* the exception raised where the failure happened
    raised,        \* the exception that leaves convert_file or convert_merge
    html_doc,      \* the complete HTML document given to the renderer
    base_url,      \* the directory given to the renderer as base_url
    document,      \* the rendered document: its metadata and the images loaded
    destination,   \* output_path and its parent on disk, before the call and now
    found,         \* the files input_dir.rglob("*.md") yields
    preserve_structure,
    markdown_files,\* convert_directory's sorted list of the files found
    md_idx,        \* index of the file the for loop of convert_directory is at
    convert_calls, \* every convert_file call made by the loop, in call order
    results,       \* the list convert_directory accumulates and returns
    out_files,     \* what each destination path under output_dir holds
    tp_metadata,   \* the metadata dict given to generate_title_page_html
    title_page_html, \* what generate_title_page_html returned
    config,        \* the Config instance
    page_number_css, \* what get_page_number_css(config) returned or raised
    page_css,      \* what get_page_css(config) returned or raised
    env,           \* the settings of the environment and the .env file
    args,          \* the command line of main
    exit_code,     \* the exit code of main, "running" before it exits
    cli_calls,     \* the conversions main has started
    cli_written,   \* how many PDF files the run has written
    accessed,      \* the style resources main has looked for on disk
    style_css,     \* where the style CSS came from, "None" before it is loaded
    cli_results    \* the success flags of the conversions main has run

evars == <<seen_ids, prev_seen, html_content, pos, headers>>

gvars == <<gen_ret, returned, gen_text>>

rvars == <<inner, raised, html_doc, base_url, document, destination>>

cvars == <<input_paths, toc_enabled, title_page_enabled, metadata, file_idx,
           html_bodies, html_body, pdf_metadata, warned, outcome, rvars>>

bvars == <<found, preserve_structure, markdown_files, md_idx, convert_calls,
           results, out_files>>

\* the variables of the operations outside the conversion pipeline
tvars == <<tp_metadata, title_page_html>>

svars == <<config, page_number_css, page_css>>

kvars == <<env, args, exit_code, cli_calls, cli_written, accessed, style_css,
           cli_results>>

dvars == <<bvars, tvars, svars, kvars>>

vars == <<pc, mode, evars, gvars, toc_html, cvars, dvars>>

-----------------------------------------------------------------------------
(* Bounds *)

MaxTextLen == 2

MaxCalls == 2

MaxElems == 2

MaxFiles == 2

MaxChunks == 3

-----------------------------------------------------------------------------
(* Characters *)

Lowers == <<"a","b","c","d","e","f","g","h","i","j","k","l","m",
            "n","o","p","q","r","s","t","u","v","w","x","y","z">>

Uppers == <<"A","B","C","D","E","F","G","H","I","J","K","L","M",
            "N","O","P","Q","R","S","T","U","V","W","X","Y","Z">>

DigitChars == <<"0","1","2","3","4","5","6","7","8","9">>

Range(f) == {f[i] : i \in DOMAIN f}

LowerLetters == Range(Lowers)

UpperLetters == Range(Uppers)

Digits == Range(DigitChars)

\* characters str.strip() removes
Whitespace == {" ", "\t", "\n"}

\* [a-zA-Z]
IsLetter(c) == c \in LowerLetters \cup UpperLetters

\* \w
IsWordChar(c) == IsLetter(c) \/ c \in Digits \/ c = "_"

\* one character of str.lower()
LowerChar(c) ==
    IF c \in UpperLetters
    THEN Lowers[CHOOSE i \in DOMAIN Uppers : Uppers[i] = c]
    ELSE c

\* str.lower()
StrLower(s) == [i \in DOMAIN s |-> LowerChar(s[i])]

\* str.replace(" ", "-")
ReplaceSpaces(s) == [i \in DOMAIN s |-> IF s[i] = " " THEN "-" ELSE s[i]]

\* the characters re.sub(r'[^a-z0-9-]', '', s) keeps
IsIdChar(c) == c \in LowerLetters \/ c \in Digits \/ c = "-"

RemoveSpecial(s) == SelectSeq(s, IsIdChar)

RECURSIVE CollapseHyphens(_)
\* re.sub(r'-+', '-', s)
CollapseHyphens(s) ==
    IF Len(s) < 2 THEN s
    ELSE IF s[1] = "-" /\ s[2] = "-" THEN CollapseHyphens(Tail(s))
    ELSE <<s[1]>> \o CollapseHyphens(Tail(s))

RECURSIVE LStrip(_, _)
LStrip(s, cs) == IF s # <<>> /\ s[1] \in cs THEN LStrip(Tail(s), cs) ELSE s

RECURSIVE RStrip(_, _)
RStrip(s, cs) ==
    IF s # <<>> /\ s[Len(s)] \in cs THEN RStrip(SubSeq(s, 1, Len(s) - 1), cs) ELSE s

\* str.strip(cs)
Strip(s, cs) == RStrip(LStrip(s, cs), cs)

RECURSIVE IntToStr(_)
\* f"{counter}" for counter >= 0
IntToStr(n) ==
    IF n < 10 THEN <<DigitChars[n + 1]>>
    ELSE IntToStr(n \div 10) \o <<DigitChars[(n % 10) + 1]>>

-----------------------------------------------------------------------------
(* generate_anchor_id *)

HeadingFallback == <<"h","e","a","d","i","n","g">>

\* a candidate that keeps runs of hyphens
base_id_runs_kept(text) ==
    LET b == Strip(RemoveSpecial(ReplaceSpaces(StrLower(text))), {"-"})
    IN  IF b = <<>> THEN HeadingFallback ELSE b

\* lines 386-403: the sanitised candidate
base_id(text) ==
    LET b == Strip(CollapseHyphens(RemoveSpecial(ReplaceSpaces(StrLower(text)))), {"-"})
    IN  IF b = <<>> THEN HeadingFallback ELSE b

\* f"{base_id}-{counter}"
Suffixed(b, counter) == b \o <<"-">> \o IntToStr(counter)

\* a counter search that stops at its first candidate
FirstFreeCounterNoLoop(b, seen, counter) == counter

RECURSIVE FirstFreeCounter(_, _, _)
\* the while loop of lines 411-413, entered with counter
FirstFreeCounter(b, seen, counter) ==
    IF Suffixed(b, counter) \in seen
    THEN FirstFreeCounter(b, seen, counter + 1)
    ELSE counter

\* a generator whose counter starts at 3
generate_anchor_id_from_three(text, seen) ==
    LET b == base_id(text)
    IN  IF b \notin seen THEN b
        ELSE Suffixed(b, FirstFreeCounter(b, seen, 3))

\* the id generate_anchor_id(text, seen) returns
generate_anchor_id(text, seen) ==
    LET b == base_id(text)
    IN  IF b \notin seen THEN b
        ELSE Suffixed(b, FirstFreeCounter(b, seen, 2))

\* seen_ids after generate_anchor_id(text, seen): seen_ids.add(<returned id>)
SeenAfterGenerate(text, seen) == seen \cup {generate_anchor_id(text, seen)}

\* re.match(r'^[a-zA-Z][\w\-]*$', s) on a string without newline
ValidIdFormat(s) ==
    /\ s # <<>>
    /\ IsLetter(s[1])
    /\ \A i \in 2..Len(s) : IsWordChar(s[i]) \/ s[i] = "-"

-----------------------------------------------------------------------------
(* HTML fragments: a fragment is a sequence of elements, an element is an   *)
(* opening tag (name and double-quoted attributes), its inner markup and    *)
(* the matching closing tag; heading elements are well-formed and do not    *)
(* nest.  Inner markup is a sequence of characters and of whole nested      *)
(* tags such as "<b>".                                                      *)

Attr(n, v) == [name |-> n, value |-> v]

IdName == <<"i","d">>

ClassName == <<"c","l","a","s","s">>

DataIdName == <<"d","a","t","a","-","i","d">>

Element(t, as, c) == [tag |-> t, attrs |-> as, content |-> c]

\* pattern r'<(h[12])\b([^>]*)>(.*?)</\1>' with re.IGNORECASE: the tag name
TagMatches(tag) ==
    /\ Len(tag) = 2
    /\ LowerChar(tag[1]) = "h"
    /\ tag[2] \in {"1", "2"}

\* level = int(tag[1]) of the lower-cased tag name
LevelOf(tag) == CHOOSE n \in 0..9 : DigitChars[n + 1] = tag[2]

\* id_pattern r'\bid="([^"]*)"' matches at this attribute: the name ends in
\* "id" and a word boundary stands before the "i"
IdPatternAt(a) ==
    LET n == Len(a.name)
    IN  /\ n >= 2
        /\ a.name[n - 1] = "i"
        /\ a.name[n] = "d"
        /\ (n = 2 \/ ~IsWordChar(a.name[n - 2]))

\* re.search(id_pattern, attrs): index of the leftmost match, 0 for no match
IdMatch(attrs) ==
    IF \E i \in DOMAIN attrs : IdPatternAt(attrs[i])
    THEN CHOOSE i \in DOMAIN attrs :
            /\ IdPatternAt(attrs[i])
            /\ \A j \in 1..(i - 1) : ~IdPatternAt(attrs[j])
    ELSE 0

\* anchor_id = id_match.group(1).strip() if id_match else ''
ExplicitId(attrs) ==
    IF IdMatch(attrs) = 0 THEN <<>>
    ELSE Strip(attrs[IdMatch(attrs)].value, Whitespace)

\* a nested tag inside inner markup, the match of r'<[^>]+>'
IsTagToken(tok) == tok \in {"<b>", "</b>"}

IsTextChar(tok) == ~IsTagToken(tok)

\* re.sub(r'<[^>]+>', '', content)
StripTags(content) == SelectSeq(content, IsTextChar)

\* the named references html.escape emits and html.unescape decodes
Entities ==
    << [ch |-> "&",  ref |-> <<"&","a","m","p",";">>],
       [ch |-> "<",  ref |-> <<"&","l","t",";">>],
       [ch |-> ">",  ref |-> <<"&","g","t",";">>],
       [ch |-> "\"", ref |-> <<"&","q","u","o","t",";">>],
       [ch |-> "'",  ref |-> <<"&","#","x","2","7",";">>] >>

HasPrefix(s, p) == Len(s) >= Len(p) /\ SubSeq(s, 1, Len(p)) = p

RECURSIVE HtmlUnescape(_)
\* html.unescape(s), for the references of Entities
HtmlUnescape(s) ==
    IF s = <<>> THEN <<>>
    ELSE IF \E k \in DOMAIN Entities : HasPrefix(s, Entities[k].ref)
    THEN LET k == CHOOSE k \in DOMAIN Entities : HasPrefix(s, Entities[k].ref)
         IN  <<Entities[k].ch>>
                 \o HtmlUnescape(SubSeq(s, Len(Entities[k].ref) + 1, Len(s)))
    ELSE <<s[1]>> \o HtmlUnescape(Tail(s))

\* an escape that leaves the quote characters alone
EscapeCharNoQuote(c) ==
    IF c \in {"&", "<", ">"}
    THEN Entities[CHOOSE k \in DOMAIN Entities : Entities[k].ch = c].ref
    ELSE <<c>>

\* one character of html.escape(s) (quote=True)
EscapeChar(c) ==
    IF \E k \in DOMAIN Entities : Entities[k].ch = c
    THEN Entities[CHOOSE k \in DOMAIN Entities : Entities[k].ch = c].ref
    ELSE <<c>>

RECURSIVE HtmlEscape(_)
\* html.escape(s)
HtmlEscape(s) == IF s = <<>> THEN <<>> ELSE EscapeChar(s[1]) \o HtmlEscape(Tail(s))

\* text = html.unescape(re.sub(r'<[^>]+>', '', content).strip())
HeaderText(content) == HtmlUnescape(Strip(StripTags(content), Whitespace))

\* line 456: the explicit id is kept
KeepsExplicitId(anchor_id) == anchor_id # <<>> /\ ValidIdFormat(anchor_id)

\* lines 455-459: the anchor_id of the record
AnchorFor(el, seen) ==
    IF KeepsExplicitId(ExplicitId(el.attrs))
    THEN ExplicitId(el.attrs)
    ELSE generate_anchor_id(HeaderText(el.content), seen)

\* a loop body that registers generated ids only
SeenAfterHeaderGeneratedOnly(el, seen) ==
    IF KeepsExplicitId(ExplicitId(el.attrs))
    THEN seen
    ELSE SeenAfterGenerate(HeaderText(el.content), seen)

\* lines 455-459: seen_ids after the record's anchor_id was settled
SeenAfterHeader(el, seen) ==
    IF KeepsExplicitId(ExplicitId(el.attrs))
    THEN seen \cup {ExplicitId(el.attrs)}
    ELSE SeenAfterGenerate(HeaderText(el.content), seen)

\* a record whose level is always 1
HeaderRecordLevelOne(el, seen) ==
    [text |-> HeaderText(el.content),
     level |-> 1,
     anchor_id |-> AnchorFor(el, seen)]

\* lines 461-465
HeaderRecord(el, seen) ==
    [text |-> HeaderText(el.content),
     level |-> LevelOf(StrLower(el.tag)),
     anchor_id |-> AnchorFor(el, seen)]


-----------------------------------------------------------------------------
(* generate_toc_html.  A fragment lists its elements flat, in document      *)
(* order, as the heading scanner meets them; wrapping <div>s are left out.  *)

TocTitle == <<"T","a","b","l","e"," ","o","f"," ","C","o","n","t","e","n","t","s">>

\* line 486: <h1>Table of Contents</h1>
TocTitleElement == Element(<<"h","1">>, <<>>, TocTitle)

\* lines 490-493: the <li> of one header
TocItem(header) ==
    [css_class |-> <<"t","o","c","-","h">> \o IntToStr(header.level),
     href |-> <<"#">> \o header.anchor_id,
     label |-> HtmlEscape(header.text)]

\* a TOC that lists its own title as its first entry
generate_toc_html_self_listed(hs) ==
    IF hs = <<>> THEN <<>>
    ELSE << TocTitleElement,
            [tag |-> <<"u","l">>, attrs |-> <<>>, content |-> <<>>,
             items |-> <<TocItem([text |-> TocTitle, level |-> 1,
                                  anchor_id |-> <<"t","o","c">>])>>
                       \o [i \in DOMAIN hs |-> TocItem(hs[i])]] >>

\* lines 482-498
generate_toc_html(hs) ==
    IF hs = <<>> THEN <<>>
    ELSE << TocTitleElement,
            [tag |-> <<"u","l">>, attrs |-> <<>>, content |-> <<>>,
             items |-> [i \in DOMAIN hs |-> TocItem(hs[i])]] >>

-----------------------------------------------------------------------------
(* Metadata and title page *)

\* Python's None, for a metadata entry that is absent or None
NoneVal == <<"None">>

\* y for None only: an empty string is kept
PyOrNoneOnly(x, y) == IF x = NoneVal THEN y ELSE x

\* x or y
PyOr(x, y) == IF x = NoneVal \/ x = <<>> THEN y ELSE x

RECURSIVE SplitOn(_, _)
\* s.split(c)
SplitOn(s, c) ==
    IF \E i \in DOMAIN s : s[i] = c
    THEN LET k == CHOOSE i \in DOMAIN s : s[i] = c /\ \A j \in 1..(i - 1) : s[j] # c
         IN  <<SubSeq(s, 1, k - 1)>> \o SplitOn(SubSeq(s, k + 1, Len(s)), c)
    ELSE <<s>>

\* lines 171 and 309-311: [kw.strip() for kw in keywords.split(',')]
Keywords(kw) ==
    [i \in DOMAIN SplitOn(kw, ",") |-> Strip(SplitOn(kw, ",")[i], Whitespace)]

\* metadata whose title is the caller's, whatever it is
ResolveMetadataNoDefault(md, stem) ==
    [title |-> IF md.present /\ md.title # NoneVal THEN md.title ELSE <<>>,
     author |-> <<>>, subject |-> <<>>, keywords |-> <<>>]

\* lines 113-127 and 231-242; md.present is the truth value of the argument
ResolveMetadata(md, stem) ==
    IF md.present
    THEN [title |-> PyOr(md.title, stem),
          author |-> PyOr(md.author, <<>>),
          subject |-> PyOr(md.subject, <<>>),
          keywords |-> PyOr(md.keywords, <<>>)]
    ELSE [title |-> stem, author |-> <<>>, subject |-> <<>>, keywords |-> <<>>]

Untitled == <<"U","n","t","i","t","l","e","d">>

\* md.get(key) on a dict
Get(md, key) == IF key \in DOMAIN md THEN md[key] ELSE NoneVal

AuthorClass == <<"a","u","t","h","o","r">>

DateClass == <<"d","a","t","e">>

\* lines 509-520, with date_str the formatted current date
generate_title_page_html(md, date_str) ==
    <<Element(<<"h","1">>, <<>>, HtmlEscape(PyOr(Get(md, "title"), Untitled)))>>
        \o (IF PyOr(Get(md, "author"), <<>>) # <<>>
            THEN <<Element(<<"p">>, <<Attr(ClassName, AuthorClass)>>,
                           HtmlEscape(PyOr(Get(md, "author"), <<>>)))>>
            ELSE <<>>)
        \o <<Element(<<"p">>, <<Attr(ClassName, DateClass)>>, HtmlEscape(date_str))>>

-----------------------------------------------------------------------------
(* Paths and image references.  A directory or image path is the sequence   *)
(* of its components, "/" first when it is absolute.                        *)

IsAbsolute(path) == path # <<>> /\ path[1] = "/"

RECURSIVE ResolveFrom(_, _)
\* the components of rest put after done, ".." taking the last one away
ResolveFrom(done, rest) ==
    IF rest = <<>> THEN done
    ELSE IF rest[1] = ".."
    THEN ResolveFrom(IF Len(done) > 1 THEN SubSeq(done, 1, Len(done) - 1) ELSE done,
                     Tail(rest))
    ELSE ResolveFrom(Append(done, rest[1]), Tail(rest))

\* Path.resolve() of an absolute path
Resolve(path) == ResolveFrom(<<>>, path)

\* the image files on disk
ImageFiles == { <<"/", "d1", "p.png">>, <<"/", "d2", "q.png">> }

\* Path.exists()
Exists(path) == path \in ImageFiles

\* image_extension.py lines 59-64
ImgPath(path, source_dir) ==
    IF IsAbsolute(path) THEN path ELSE Resolve(source_dir \o path)

\* ![alt](ref): an img element of the parsed tree
Image(ref) == [kind |-> "image", ref |-> ref]

\* image_extension.py lines 37-40: the img elements run resolves
IsResolved(b) == b.kind = "image" /\ b.ref # <<>>

\* the references of blocks that _resolve_image_path rejects, in tree order
MissingRefs(blocks, source_dir) ==
    SelectSeq([i \in DOMAIN blocks |->
                  IF IsResolved(blocks[i]) THEN blocks[i].ref ELSE <<>>],
              LAMBDA r : r # <<>> /\ ~Exists(ImgPath(r, source_dir)))

\* image_extension.py lines 28-42: the tree after ImagePathProcessor.run
run(blocks, source_dir) ==
    [i \in DOMAIN blocks |->
        IF IsResolved(blocks[i])
        THEN Image(ImgPath(blocks[i].ref, source_dir))
        ELSE blocks[i]]

SrcName == <<"s","r","c">>

ImgTag == <<"i","m","g">>

\* an img element of the document
ImgElement(src) == Element(ImgTag, <<Attr(SrcName, src)>>, <<>>)

IsImg(el) == el.tag = ImgTag /\ \E i \in DOMAIN el.attrs : el.attrs[i].name = SrcName

SrcOf(el) ==
    el.attrs[CHOOSE i \in DOMAIN el.attrs : el.attrs[i].name = SrcName].value

\* the file the renderer loads for src: a relative src is joined to base_url
UrlJoin(base, src) == IF IsAbsolute(src) THEN src ELSE Resolve(base \o src)

\* the images the renderer loads for the img elements of body, in order
LoadedImages(body, base) ==
    LET imgs == SelectSeq(body, IsImg)
    IN  [i \in DOMAIN imgs |->
            [src |-> SrcOf(imgs[i]),
             target |-> UrlJoin(base, SrcOf(imgs[i])),
             loaded |-> Exists(UrlJoin(base, SrcOf(imgs[i])))]]

IsPrefix(a, b) == Len(a) <= Len(b) /\ SubSeq(b, 1, Len(a)) = a

RECURSIVE CommonPrefix(_, _)
\* converter.py lines 287-294
CommonPrefix(a, b) ==
    IF a = <<>> \/ b = <<>> THEN <<>>
    ELSE IF a[1] # b[1] THEN <<>>
    ELSE <<a[1]>> \o CommonPrefix(Tail(a), Tail(b))

\* converter.py lines 280-295: base_dir after the turn for a source in parent
NextBaseDir(base_dir, parent) ==
    IF IsPrefix(parent, base_dir) THEN base_dir
    ELSE IF IsPrefix(base_dir, parent) THEN base_dir
    ELSE IF CommonPrefix(base_dir, parent) # <<>>
    THEN CommonPrefix(base_dir, parent)
    ELSE base_dir

RECURSIVE BaseDirFrom(_, _, _)
BaseDirFrom(base_dir, paths, i) ==
    IF i > Len(paths) THEN base_dir
    ELSE BaseDirFrom(NextBaseDir(base_dir, paths[i].parent), paths, i + 1)

\* converter.py lines 277-295
BaseDir(paths) == BaseDirFrom(paths[1].parent, paths, 2)

-----------------------------------------------------------------------------
(* Exceptions: the class, the fixed text of the message, and the path, the  *)
(* image reference and the cause formatted into it                          *)

NoPath == [parent |-> <<>>, stem |-> <<>>]

NoRef == <<>>

NoCause == ""

Exc(type, text, path, ref, cause) ==
    [type |-> type, text |-> text, path |-> path, ref |-> ref, cause |-> cause]

NoException == Exc("none", "", NoPath, NoRef, NoCause)

\* an exception of a library or of the operating system
LibraryError(text) == Exc("Exception", text, NoPath, NoRef, NoCause)

PathOf(src) == [parent |-> src.parent, stem |-> src.stem]

\* a read failure raised as it came from read_text
ReadErrorUnclassified(src, cause) == LibraryError(cause)

\* converter.py lines 89-92 and 213-216
ReadError(src, cause) ==
    IF cause = "FileNotFoundError"
    THEN Exc("InvalidMarkdownError", "File not found: ", PathOf(src), NoRef, NoCause)
    ELSE Exc("InvalidMarkdownError", "Error reading ", PathOf(src), NoRef, cause)

\* image_extension.py lines 68-71
ImageError(src, ref) ==
    Exc("InvalidMarkdownError", "Image not found: ", PathOf(src), ref, NoCause)

\* converter.py lines 175-179 and 315-318: what leaves the try statement
\* when e is raised in it
\* a handler that reports every failure as InvalidMarkdownError
HandledAsInvalid(m, src, e) ==
    IF e.type = "InvalidMarkdownError" THEN e
    ELSE Exc("InvalidMarkdownError", "Error reading ", PathOf(src), NoRef, e.text)

Handled(m, src, e) ==
    IF e.type = "InvalidMarkdownError" THEN e
    ELSE IF m = "file"
    THEN Exc("ConversionError", "Error converting to PDF: ", PathOf(src), NoRef,
             e.text)
    ELSE Exc("ConversionError", "Error merging files to PDF: ", NoPath, NoRef,
             e.text)

-----------------------------------------------------------------------------
(* Markdown conversion: markdown.Markdown(extensions = base_extensions +     *)
(* [image_ext]).convert(content).  A source is a sequence of blocks: a       *)
(* Markdown heading, a block of raw HTML, or a paragraph.  The "toc"         *)
(* extension gives every Markdown heading an id, slugified from its text    *)
(* and made unique within the one conversion; raw HTML passes through.      *)

MdHeading(level, text) == [kind |-> "heading", level |-> level, text |-> text]

RawHtml(el) == [kind |-> "html", element |-> el]

Paragraph(text) == [kind |-> "para", text |-> text]

IsSlugChar(c) == IsWordChar(c) \/ c \in Whitespace \/ c = "-"

IsSlugSep(c) == c = "-" \/ c \in Whitespace

RECURSIVE CollapseSeparators(_)
\* re.sub(r'[-\s]+', '-', value)
CollapseSeparators(s) ==
    IF s = <<>> THEN <<>>
    ELSE IF IsSlugSep(s[1])
    THEN IF Len(s) >= 2 /\ IsSlugSep(s[2])
         THEN CollapseSeparators(Tail(s))
         ELSE <<"-">> \o CollapseSeparators(Tail(s))
    ELSE <<s[1]>> \o CollapseSeparators(Tail(s))

\* the toc extension's slugify(value, '-') on ASCII text
Slugify(text) ==
    CollapseSeparators(StrLower(Strip(SelectSeq(text, IsSlugChar), Whitespace)))

RECURSIVE StrToInt(_)
StrToInt(ds) ==
    IF ds = <<>> THEN 0
    ELSE 10 * StrToInt(SubSeq(ds, 1, Len(ds) - 1))
            + (CHOOSE n \in 0..9 : DigitChars[n + 1] = ds[Len(ds)])

\* where r'^(.*)_([0-9]+)$' splits id: the index of its last "_" when only
\* digits, and at least one, follow it; 0 for no match
CountSplit(id) ==
    IF \E k \in 1..(Len(id) - 1) :
          id[k] = "_" /\ \A j \in (k + 1)..Len(id) : id[j] \in Digits
    THEN CHOOSE k \in 1..(Len(id) - 1) :
          id[k] = "_" /\ \A j \in (k + 1)..Len(id) : id[j] \in Digits
    ELSE 0

RECURSIVE TocUnique(_, _)
\* the toc extension's unique(id, ids)
TocUnique(id, used) ==
    IF id \in used \/ id = <<>>
    THEN LET k == CountSplit(id)
         IN  IF k > 0
             THEN TocUnique(SubSeq(id, 1, k - 1) \o <<"_">>
                      \o IntToStr(StrToInt(SubSeq(id, k + 1, Len(id))) + 1), used)
             ELSE TocUnique(id \o <<"_", "1">>, used)
    ELSE id

HeadingTag(level) == <<"h">> \o IntToStr(level)

RECURSIVE MdConvertFrom(_, _)
\* the converted elements of blocks, with used the ids given out so far
MdConvertFrom(blocks, used) ==
    IF blocks = <<>> THEN <<>>
    ELSE LET b == blocks[1]
         IN  IF b.kind = "heading"
             THEN LET id == TocUnique(Slugify(b.text), used)
                  IN  <<Element(HeadingTag(b.level), <<Attr(IdName, id)>>, b.text)>>
                          \o MdConvertFrom(Tail(blocks), used \cup {id})
             ELSE IF b.kind = "html"
             THEN <<b.element>> \o MdConvertFrom(Tail(blocks), used)
             ELSE IF b.kind = "image"
             THEN <<ImgElement(b.ref)>> \o MdConvertFrom(Tail(blocks), used)
             ELSE <<Element(<<"p">>, <<>>, b.text)>> \o MdConvertFrom(Tail(blocks), used)

\* md.convert(content) on a fresh Markdown instance
MdConvert(blocks) == MdConvertFrom(blocks, {})

-----------------------------------------------------------------------------
(* Merging *)

StyleName == <<"s","t","y","l","e">>

PageBreakStyle ==
    <<"p","a","g","e","-","b","r","e","a","k","-","b","e","f","o","r","e",":",
      " ","a","l","w","a","y","s",";">>

\* '<div style="page-break-before: always;"></div>'
PageBreak == Element(<<"d","i","v">>, <<Attr(StyleName, PageBreakStyle)>>, <<>>)

RECURSIVE JoinEvery(_, _)
\* a join that puts the separator after every fragment, the last one included
JoinEvery(sep, frags) ==
    IF frags = <<>> THEN <<>>
    ELSE frags[1] \o sep \o JoinEvery(sep, Tail(frags))

RECURSIVE Join(_, _)
\* sep.join(frags)
Join(sep, frags) ==
    IF frags = <<>> THEN <<>>
    ELSE IF Len(frags) = 1 THEN frags[1]
    ELSE frags[1] \o sep \o Join(sep, Tail(frags))

\* lines 226-229
CombinedHtml(bodies) == Join(<<PageBreak>>, bodies)

\* a TOC put after the body
AppendToc(hs, body) == body \o generate_toc_html(hs)

\* lines 133-137 and 247-253: the body after the TOC step
PrependToc(hs, body) == generate_toc_html(hs) \o body

-----------------------------------------------------------------------------
(* styles.py: the @page rules.  A CSS text is modelled by its parts: the    *)
(* empty string is the empty sequence, a margin box is a record.            *)

PagePlaceholder == <<"{","p","a","g","e","}">>

PagesPlaceholder == <<"{","p","a","g","e","s","}">>

\* pat in s
Contains(s, pat) ==
    \E i \in 1..(Len(s) - Len(pat) + 1) : SubSeq(s, i, i + Len(pat) - 1) = pat

\* s.find(pat) + 1 for a pat that is in s
Find(s, pat) ==
    CHOOSE i \in 1..(Len(s) - Len(pat) + 1) :
        /\ SubSeq(s, i, i + Len(pat) - 1) = pat
        /\ \A j \in 1..(i - 1) : SubSeq(s, j, j + Len(pat) - 1) # pat

\* s.split(pat, 1) for a pat that is in s
Before(s, pat) == SubSeq(s, 1, Find(s, pat) - 1)

After(s, pat) == SubSeq(s, Find(s, pat) + Len(pat), Len(s))

RECURSIVE ReplaceChar(_, _, _)
\* text.replace(c, r) for a character c
ReplaceChar(text, c, r) ==
    IF text = <<>> THEN <<>>
    ELSE IF Len(text) = 1 THEN (IF text[1] = c THEN r ELSE text)
    ELSE ReplaceChar(SubSeq(text, 1, Len(text) \div 2), c, r)
            \o ReplaceChar(SubSeq(text, Len(text) \div 2 + 1, Len(text)), c, r)

\* styles.py lines 6-15
escape_css_string(text) ==
    ReplaceChar(ReplaceChar(ReplaceChar(text, "\\", <<"\\", "\\">>),
                            "\"", <<"\\", "\"">>),
                "\n", <<"\\", "n">>)

\* f'"{_escape_css_string(before)}"'
StringToken(text) == [kind |-> "string", text |-> escape_css_string(text)]

\* 'counter(page)' and 'counter(pages)'
CounterToken(name) == [kind |-> "counter", name |-> name]

RECURSIVE ContentParts(_)
\* styles.py lines 46-66: content_parts for remaining
ContentParts(remaining) ==
    IF remaining = <<>> THEN <<>>
    ELSE IF Contains(remaining, PagePlaceholder)
    THEN (IF Before(remaining, PagePlaceholder) # <<>>
          THEN <<StringToken(Before(remaining, PagePlaceholder))>> ELSE <<>>)
         \o <<CounterToken("page")>>
         \o ContentParts(After(remaining, PagePlaceholder))
    ELSE IF Contains(remaining, PagesPlaceholder)
    THEN (IF Before(remaining, PagesPlaceholder) # <<>>
          THEN <<StringToken(Before(remaining, PagesPlaceholder))>> ELSE <<>>)
         \o <<CounterToken("pages")>>
         \o ContentParts(After(remaining, PagesPlaceholder))
    ELSE <<StringToken(remaining)>>

\* the text of a part of content_parts
PartText(part) ==
    IF part.kind = "string" THEN <<"\"">> \o part.text \o <<"\"">>
    ELSE IF part.name = "page"
    THEN <<"c","o","u","n","t","e","r","(","p","a","g","e",")">>
    ELSE <<"c","o","u","n","t","e","r","(","p","a","g","e","s",")">>

\* styles.py line 68: " ".join(content_parts)
ContentValue(parts) == Join(<<" ">>, [i \in DOMAIN parts |-> PartText(parts[i])])

\* styles.py lines 31-35
position_map ==
    [left |-> "@bottom-left", center |-> "@bottom-center", right |-> "@bottom-right"]

\* a call that returned value, and a call that raised ValueError
Returned(value) == [raised |-> "None", value |-> value]

RaisedValueError == [raised |-> "ValueError", value |-> <<>>]

NotCalled == [raised |-> "not called", value |-> <<>>]

\* the centre box, whatever the position
MarginBoxCentered(position) == "@bottom-center"

\* styles.py lines 37-42
MarginBox(position) == position_map[position]

\* styles.py lines 18-77
get_page_number_css(cfg) ==
    IF ~cfg.enable_page_numbers THEN Returned(<<>>)
    ELSE IF cfg.page_number_position \notin DOMAIN position_map
    THEN RaisedValueError
    ELSE Returned(<<[margin_box |-> MarginBox(cfg.page_number_position),
                     content_parts |-> ContentParts(cfg.page_number_format),
                     content |-> ContentValue(ContentParts(cfg.page_number_format)),
                     font_size |-> "9pt",
                     color |-> "#666",
                     font_family |-> "Arial, sans-serif"]>>)

\* styles.py lines 80-102
get_page_css(cfg) ==
    IF get_page_number_css(cfg).raised # "None" THEN get_page_number_css(cfg)
    ELSE Returned(<<[size |-> cfg.page_size,
                     margin_top |-> cfg.margin_top,
                     margin_bottom |-> cfg.margin_bottom,
                     margin_left |-> cfg.margin_left,
                     margin_right |-> cfg.margin_right,
                     page_number_css |-> get_page_number_css(cfg).value]>>)

\* config.py lines 28-29 and 98-102: the defaults
DefaultFormat ==
    <<"P","a","g","e"," ">> \o PagePlaceholder \o <<" ","o","f"," ">>
        \o PagesPlaceholder

DefaultMargin == <<"2","c","m">>

DefaultConfig ==
    [page_size |-> "A4", margin_top |-> DefaultMargin,
     margin_bottom |-> DefaultMargin, margin_left |-> DefaultMargin,
     margin_right |-> DefaultMargin, enable_page_numbers |-> FALSE,
     page_number_position |-> "center", page_number_format |-> DefaultFormat]

-----------------------------------------------------------------------------
(* config.py and cli.py: the configuration and the command line *)

\* config.py line 87
FormatLimit == 100

\* config.py line 78
valid_positions == {"left", "center", "right"}

\* config.py line 124
valid_page_sizes == {"A4", "A3", "A5", "Letter", "Legal"}

\* config.py line 138
Units == {<<"c","m">>, <<"m","m">>, <<"i","n">>, <<"p","t">>, <<"p","x">>}

\* s.endswith(suffix)
EndsWith(s, suffix) ==
    Len(s) >= Len(suffix) /\ SubSeq(s, Len(s) - Len(suffix) + 1, Len(s)) = suffix

MarginNames == {"margin_top", "margin_bottom", "margin_left", "margin_right"}

\* the environment with no setting changed
DefaultEnv ==
    [PDF_PAGE_SIZE |-> "A4", margin_top |-> DefaultMargin,
     margin_bottom |-> DefaultMargin, margin_left |-> DefaultMargin,
     margin_right |-> DefaultMargin,
     ENABLE_PAGE_NUMBERS |-> <<"f","a","l","s","e">>,
     PAGE_NUMBER_POSITION |-> "center", PAGE_NUMBER_FORMAT |-> DefaultFormat]

\* a load that keeps the format whatever its length
load_whole_format(e) ==
    IF e.PAGE_NUMBER_POSITION \notin valid_positions THEN RaisedValueError
    ELSE Returned(
           [page_size |-> e.PDF_PAGE_SIZE, margin_top |-> e.margin_top,
            margin_bottom |-> e.margin_bottom, margin_left |-> e.margin_left,
            margin_right |-> e.margin_right,
            enable_page_numbers |->
                StrLower(e.ENABLE_PAGE_NUMBERS) = <<"t","r","u","e">>,
            page_number_position |-> e.PAGE_NUMBER_POSITION,
            page_number_format |-> e.PAGE_NUMBER_FORMAT])

\* config.py lines 72-116: what Config.load returns or raises
load(e) ==
    IF e.PAGE_NUMBER_POSITION \notin valid_positions THEN RaisedValueError
    ELSE Returned(
           [page_size |-> e.PDF_PAGE_SIZE, margin_top |-> e.margin_top,
            margin_bottom |-> e.margin_bottom, margin_left |-> e.margin_left,
            margin_right |-> e.margin_right,
            enable_page_numbers |->
                StrLower(e.ENABLE_PAGE_NUMBERS) = <<"t","r","u","e">>,
            page_number_position |-> e.PAGE_NUMBER_POSITION,
            page_number_format |->
                IF Len(e.PAGE_NUMBER_FORMAT) > FormatLimit
                THEN SubSeq(e.PAGE_NUMBER_FORMAT, 1, FormatLimit)
                ELSE e.PAGE_NUMBER_FORMAT])

\* a validation that looks at the page size only
validate_page_size_only(cfg) ==
    IF cfg.page_size \notin valid_page_sizes THEN "ValueError" ELSE "None"

\* config.py lines 118-142: what Config.validate raises
validate(cfg) ==
    IF cfg.page_size \notin valid_page_sizes THEN "ValueError"
    ELSE IF \E m \in MarginNames : \A unit \in Units : ~EndsWith(cfg[m], unit)
    THEN "ValueError"
    ELSE "None"

\* themes/__init__.py line 6
AVAILABLE_THEMES == {"github", "minimal", "academic", "dark", "modern"}

\* the command line with no option given
NoArgs == [theme |-> "None", css |-> "None", page_numbers |-> "None", kind |-> "file"]

\* cli.py lines 103-104
WithOverride(cfg, a) ==
    IF a.page_numbers = "None" THEN cfg
    ELSE [cfg EXCEPT !.enable_page_numbers = (a.page_numbers = "True")]

\* the truth value of an optional string: None and "" are false
Truthy(text) == text \notin {"None", ""}

\* cli.py lines 107-114
BothGiven(a) == Truthy(a.theme) /\ a.css # "None"

\* an outcome of loading a style: the exception raised, the source of the CSS
\* returned, the resources looked for on disk
StyleOutcome(exception, value, resources) ==
    [raised |-> exception, value |-> value, accessed |-> resources]

\* themes/__init__.py lines 9-31; theme_found tells whether the CSS file of
\* the theme is there
get_theme_css(theme_name, theme_found) ==
    IF theme_name \notin AVAILABLE_THEMES
    THEN StyleOutcome("ValueError", "None", {})
    ELSE IF ~theme_found
    THEN StyleOutcome("FileNotFoundError", "None", {theme_name})
    ELSE StyleOutcome("None", theme_name, {theme_name})

\* themes/__init__.py lines 34-50
load_custom_css(css_path) ==
    IF css_path = "missing"
    THEN StyleOutcome("FileNotFoundError", "None", {"css"})
    ELSE StyleOutcome("None", "custom", {"css"})

\* cli.py lines 117-123
LoadStyle(a, theme_found) ==
    IF a.css # "None" THEN load_custom_css(a.css)
    ELSE IF Truthy(a.theme) THEN get_theme_css(a.theme, theme_found)
    ELSE get_theme_css("github", theme_found)

\* an exit code that does not tell a partial failure from a total one
DirectoryExitTotal(flags) ==
    IF \A i \in DOMAIN flags : flags[i] THEN 0 ELSE 2

\* cli.py lines 222-263: the exit code for a list of success flags
DirectoryExit(flags) ==
    LET success_count == Cardinality({i \in DOMAIN flags : flags[i]})
        failure_count == Len(flags) - success_count
    IN  IF flags = <<>> THEN 0
        ELSE IF failure_count = 0 THEN 0
        ELSE IF success_count = 0 THEN 2
        ELSE 1

-----------------------------------------------------------------------------
(* Inputs *)

Alphabet == {"a", "B", "2", " ", "-", "!"}

StringsUpTo(cs, n) == UNION {[1..k -> cs] : k \in 0..n}

Texts == StringsUpTo(Alphabet, MaxTextLen)

\* heading texts of the documentation and the tests
Introduction == <<"I","n","t","r","o","d","u","c","t","i","o","n">>
FaqsAndTips == <<"F","A","Q","'","s"," ","&"," ","T","i","p","s","!">>

\* the texts of a run of calls on one text
AnchorTexts == Texts \cup {Introduction, FaqsAndTips, <<"!","!","!">>}

\* ids a caller may already hold in seen_ids when the calls start
SeenPool == {<<"a">>, <<"a","-","2">>, <<"a","-","3">>}

\* attribute lists of an opening tag
AttrLists ==
    { <<>>,
      <<Attr(IdName, <<"a">>)>>,
      <<Attr(ClassName, <<"c">>), Attr(IdName, <<" ","a","-","2"," ">>)>>,
      <<Attr(IdName, <<"2","a">>)>>,
      <<Attr(IdName, <<>>)>>,
      <<Attr(DataIdName, <<"x">>), Attr(IdName, <<"a">>)>> }

\* inner markup of a heading
Contents ==
    { <<"a">>,
      <<"<b>","A","</b>">>,
      <<" ","<b>","</b>">>,
      <<"&","l","t",";","2">>,
      <<"&","a","m","p",";","\"","'",">">> }

HeadingTags == {<<"h","1">>, <<"H","2">>}

OtherElement == Element(<<"h","3">>, <<>>, <<"a">>)

Elements ==
    {Element(t, as, c) : t \in HeadingTags, as \in AttrLists, c \in Contents}
        \cup {OtherElement}

Fragments == StringsUpTo(Elements, MaxElems)

\* source files: directory, base name, whether read_text succeeds, and the
\* blocks read
Source(parent, stem, readable, blocks) ==
    [parent |-> parent, stem |-> stem, readable |-> readable, blocks |-> blocks]

D1 == <<"/", "d1">>

D1S == <<"/", "d1", "s">>

D2 == <<"/", "d2">>

Sources ==
    { Source(D1, <<"a">>, TRUE, <<MdHeading(1, <<"a">>)>>),
      Source(D1, <<"b">>, TRUE, <<MdHeading(1, <<"a">>), MdHeading(2, <<"a">>)>>),
      Source(D2, <<"c">>, TRUE,
             <<RawHtml(Element(<<"h","2">>, <<>>, <<"B">>)), Paragraph(<<"a">>)>>),
      Source(D1S, <<"d">>, TRUE, <<Paragraph(<<"a">>)>>),
      Source(D2, <<"e">>, TRUE, <<MdHeading(2, <<"2"," ","!">>), RawHtml(PageBreak)>>),
      Source(D1, <<"f">>, FALSE, <<>>),
      Source(D2, <<"g">>, TRUE,
             <<Image(<<"q.png">>), Image(<<"/", "d1", "p.png">>)>>),
      Source(D1S, <<"h">>, TRUE, <<Image(<<"..", "p.png">>)>>),
      Source(D1, <<"i">>, TRUE, <<Image(<<"m.png">>)>>),
      Source(D2, <<"j">>, TRUE, <<Image(<<"/", "n.png">>)>>),
      Source(D2, <<"k">>, TRUE, <<RawHtml(ImgElement(<<"q.png">>))>>) }

\* why read_text fails on a source that cannot be read
ReadFailures == {"FileNotFoundError", "PermissionError"}

\* what md.convert raises when the Markdown library fails
ConvertFailures == {"markdown failed"}

\* what ensure_directory, render and write_pdf raise when they fail
RenderFailures == {"mkdir failed", "render failed", "write failed"}

NoHtmlDoc == [title |-> <<>>, body |-> <<>>]

\* output_path.parent exists or not; output_path is absent, holds an older
\* file, the PDF of this call, or what a failed write left
OnDisk(dir, file) == [dir |-> dir, file |-> file]

\* what the caller may have at the destination before the call
Destinations == {OnDisk(FALSE, "absent"), OnDisk(TRUE, "absent"), OnDisk(TRUE, "old")}

NoDestination ==
    [before |-> OnDisk(FALSE, "absent"), now |-> OnDisk(FALSE, "absent")]

\* lines 159-173 and 297-313: the destination after ensure_directory,
\* render or write_pdf has failed
AfterFailure(text, d) ==
    IF text = "mkdir failed" THEN {d}
    ELSE IF text = "render failed" THEN {OnDisk(TRUE, d.file)}
    ELSE {OnDisk(TRUE, d.file), OnDisk(TRUE, "broken")}

NoDocument ==
    [title |-> <<>>, authors |-> <<>>, description |-> <<>>, keywords |-> <<>>,
     images |-> <<>>]

NoMetadata ==
    [present |-> FALSE, title |-> NoneVal, author |-> NoneVal,
     subject |-> NoneVal, keywords |-> NoneVal]

Metadatas ==
    { NoMetadata,
      [present |-> TRUE, title |-> <<>>, author |-> <<"A","&">>,
       subject |-> <<>>, keywords |-> <<>>],
      [present |-> TRUE, title |-> <<"T","<">>, author |-> <<>>,
       subject |-> NoneVal, keywords |-> <<"k",","," ","l">>],
      [present |-> TRUE, title |-> NoneVal, author |-> <<"A">>,
       subject |-> <<"s">>, keywords |-> NoneVal] }

\* the characters of the titles and authors given to the title page
TitleChars == {"T", "<", "&"}

\* a value of a metadata entry: None or a string
TitleValues == {NoneVal} \cup StringsUpTo(TitleChars, MaxTextLen)

\* the dicts given to generate_title_page_html: each key present or absent
TitlePageDicts ==
    UNION {[keys -> TitleValues] : keys \in SUBSET {"title", "author"}}

\* pieces a page-number format is put together from
Chunks ==
    { PagePlaceholder, PagesPlaceholder, <<"/">>, <<"\\">>, <<"\"">>, <<"\n">>,
      <<"{","p","a","g","e">>, <<"s","}">> }

RECURSIVE Flatten(_)
Flatten(q) == IF q = <<>> THEN <<>> ELSE q[1] \o Flatten(Tail(q))

\* the page-number formats
Formats == {Flatten(q) : q \in StringsUpTo(Chunks, MaxChunks)} \cup {DefaultFormat}

\* values of page_number_position
Positions == {"left", "center", "right", "top"}

\* the configs given to the styles functions
StyleConfigs ==
    { [DefaultConfig EXCEPT !.enable_page_numbers = en,
                            !.page_number_position = position,
                            !.page_number_format = fmt] :
        en \in BOOLEAN, position \in Positions, fmt \in Formats }

\* values of a margin setting
MarginValues ==
    { DefaultMargin, <<"5","m","m">>, <<"1","i","n">>, <<"3","p","t">>,
      <<"4","p","x">>, <<"1","0">>, <<"2","e","m">>, <<>> }

\* values of PDF_PAGE_SIZE
PageSizes == valid_page_sizes \cup {"a4", "B5"}

\* a page-number format of n characters, no two neighbours alike
FormatOfLen(n) == [i \in 1..n |-> DigitChars[(i % 10) + 1]]

\* page-number formats around the limit
LongFormats ==
    {FormatOfLen(n) : n \in {FormatLimit - 1, FormatLimit, FormatLimit + 1,
                             FormatLimit + 7}}

\* the environments: the default one with one setting changed, or with the
\* margins changed together, or with a page size and a margin changed
Envs ==
    {[DefaultEnv EXCEPT !.PDF_PAGE_SIZE = size] : size \in PageSizes}
    \cup {[DefaultEnv EXCEPT ![m] = v] : m \in MarginNames, v \in MarginValues}
    \cup {[DefaultEnv EXCEPT !.margin_top = v, !.margin_bottom = v,
                             !.margin_left = v, !.margin_right = v] :
             v \in MarginValues}
    \cup {[DefaultEnv EXCEPT !.PDF_PAGE_SIZE = "B5", !.margin_left = <<"1","0">>]}
    \cup {[DefaultEnv EXCEPT !.PAGE_NUMBER_POSITION = position] :
             position \in Positions}
    \cup {[DefaultEnv EXCEPT !.ENABLE_PAGE_NUMBERS = flag] :
             flag \in {<<"t","r","u","e">>, <<"T","r","u","e">>, <<"1">>}}
    \cup {[DefaultEnv EXCEPT !.PAGE_NUMBER_FORMAT = format] : format \in LongFormats}

\* the command lines
ArgLists ==
    [theme : {"None", "", "github", "bogus"}, css : {"None", "ok", "missing"},
     page_numbers : {"None", "True", "False"}, kind : {"file", "dir", "other"}]

\* base name of the merge destination
OutputStem == <<"o","u","t">>

\* values of datetime.now().strftime("%B %d, %Y")
Dates ==
    { <<"M","a","y"," ","0","1",","," ","2","0","2","6">>,
      <<"J","u","n","e"," ","3","0",","," ","2","0","2","7">> }

-----------------------------------------------------------------------------
(* Initial values of the variables an operation does not use *)

IdleGen == gen_ret = <<>> /\ returned = <<>> /\ gen_text = <<>>

IdleExtract ==
    /\ html_content = <<>>
    /\ pos = 1
    /\ headers = <<>>

IdleCompose ==
    /\ toc_html = <<>>
    /\ input_paths = <<>>
    /\ toc_enabled = FALSE
    /\ title_page_enabled = FALSE
    /\ metadata = NoMetadata
    /\ file_idx = 1
    /\ html_bodies = <<>>
    /\ html_body = <<>>
    /\ pdf_metadata = ResolveMetadata(NoMetadata, <<>>)
    /\ warned = FALSE
    /\ outcome = "none"
    /\ inner = NoException
    /\ raised = NoException
    /\ html_doc = NoHtmlDoc
    /\ base_url = <<>>
    /\ document = NoDocument
    /\ destination = NoDestination

IdleBatch ==
    /\ found = {}
    /\ preserve_structure = FALSE
    /\ markdown_files = <<>>
    /\ md_idx = 1
    /\ convert_calls = <<>>
    /\ results = <<>>
    /\ out_files = {}

IdleTitlePage ==
    /\ tp_metadata = <<>>
    /\ title_page_html = <<>>

IdleStyles ==
    /\ config = DefaultConfig
    /\ page_number_css = NotCalled
    /\ page_css = NotCalled

IdleCli ==
    /\ env = DefaultEnv
    /\ args = NoArgs
    /\ exit_code = "running"
    /\ cli_calls = <<>>
    /\ cli_written = 0
    /\ accessed = {}
    /\ style_css = "None"
    /\ cli_results = <<>>

IdleOthers == IdleBatch /\ IdleTitlePage /\ IdleStyles /\ IdleCli

-----------------------------------------------------------------------------
(* Repeated generate_anchor_id calls on one shared seen_ids set *)

InitGen ==
    /\ pc = "gen"
    /\ mode = "gen"
    /\ seen_ids \in SUBSET SeenPool
    /\ prev_seen = seen_ids
    /\ IdleGen
    /\ IdleExtract
    /\ IdleCompose
    /\ IdleOthers

GenCall ==
    /\ pc = "gen"
    /\ Len(returned) < MaxCalls
    /\ \E text \in Texts :
        /\ prev_seen' = seen_ids
        /\ gen_ret' = generate_anchor_id(text, seen_ids)
        /\ seen_ids' = SeenAfterGenerate(text, seen_ids)
        /\ returned' = Append(returned, generate_anchor_id(text, seen_ids))
    /\ UNCHANGED <<dvars, pc, mode, gen_text, html_content, pos, headers, toc_html,
                   cvars>>

NextGen == GenCall

SpecGen == InitGen /\ [][NextGen]_vars

\* generate_anchor_id called again and again on one text with one seen_ids set
InitAnchor ==
    /\ pc = "anchor"
    /\ mode = "anchor"
    /\ gen_text \in AnchorTexts
    /\ seen_ids \in SUBSET SeenPool
    /\ prev_seen = seen_ids
    /\ gen_ret = <<>>
    /\ returned = <<>>
    /\ IdleExtract
    /\ IdleCompose
    /\ IdleOthers

AnchorCall ==
    /\ pc = "anchor"
    /\ Len(returned) <= MaxCalls
    /\ prev_seen' = seen_ids
    /\ gen_ret' = generate_anchor_id(gen_text, seen_ids)
    /\ seen_ids' = SeenAfterGenerate(gen_text, seen_ids)
    /\ returned' = Append(returned, generate_anchor_id(gen_text, seen_ids))
    /\ UNCHANGED <<dvars, pc, mode, gen_text, html_content, pos, headers, toc_html,
                   cvars>>

NextAnchor == AnchorCall

SpecAnchor == InitAnchor /\ [][NextAnchor]_vars

-----------------------------------------------------------------------------
(* extract_headers, one element of the fragment per step, and               *)
(* generate_toc_html on its result                                          *)

InitExtract ==
    /\ pc = "extract"
    /\ mode = "extract"
    /\ html_content \in Fragments
    /\ pos = 1
    /\ headers = <<>>
    /\ seen_ids = {}
    /\ prev_seen = {}
    /\ IdleGen
    /\ IdleCompose
    /\ IdleOthers

\* lines 438-465: the loop body for the element at pos
ExtractStep ==
    /\ pc = "extract"
    /\ pos <= Len(html_content)
    /\ LET el == html_content[pos]
       IN  IF TagMatches(el.tag) /\ HeaderText(el.content) # <<>>
           THEN /\ headers' = Append(headers, HeaderRecord(el, seen_ids))
                /\ seen_ids' = SeenAfterHeader(el, seen_ids)
           ELSE UNCHANGED <<headers, seen_ids>>
    /\ prev_seen' = seen_ids
    /\ pos' = pos + 1
    /\ UNCHANGED <<dvars, pc, mode, gvars, html_content, toc_html, cvars>>

\* line 467: return headers, to the caller
ExtractReturn ==
    /\ pc = "extract"
    /\ pos > Len(html_content)
    /\ pc' = IF mode = "extract" THEN "extracted" ELSE "toc"
    /\ UNCHANGED <<dvars, mode, evars, gvars, toc_html, cvars>>

\* generate_toc_html(headers) called on the extracted list
GenerateToc ==
    /\ pc = "extracted"
    /\ toc_html' = generate_toc_html(headers)
    /\ pc' = "toc_done"
    /\ UNCHANGED <<dvars, mode, evars, gvars, cvars>>

NextExtract == ExtractStep \/ ExtractReturn \/ GenerateToc

SpecExtract == InitExtract /\ [][NextExtract]_vars

-----------------------------------------------------------------------------
(* convert_file and convert_merge *)

Init ==
    /\ pc = "read"
    /\ mode \in {"file", "merge"}
    /\ input_paths \in StringsUpTo(Sources, MaxFiles)
    /\ mode = "file" => Len(input_paths) = 1
    /\ toc_enabled \in BOOLEAN
    /\ title_page_enabled \in BOOLEAN
    /\ metadata \in Metadatas
    /\ file_idx = 1
    /\ html_bodies = <<>>
    /\ html_body = <<>>
    /\ toc_html = <<>>
    /\ pdf_metadata = ResolveMetadata(NoMetadata, <<>>)
    /\ warned = FALSE
    /\ outcome = "none"
    /\ inner = NoException
    /\ raised = NoException
    /\ html_doc = NoHtmlDoc
    /\ base_url = <<>>
    /\ document = NoDocument
    /\ destination \in {[before |-> d, now |-> d] : d \in Destinations}
    /\ seen_ids = {}
    /\ prev_seen = {}
    /\ IdleGen
    /\ IdleExtract
    /\ IdleOthers

\* lines 98-111 and 218-224: the fragment of a source, converted by a Markdown
\* instance that holds the image extension bound to that source
ConvertSource(src) == MdConvert(run(src.blocks, src.parent))

\* an exception e raised while src is handled ends the operation
Abort(src, e) ==
    /\ inner' = e
    /\ raised' = Handled(mode, src, e)
    /\ outcome' = Handled(mode, src, e).type
    /\ pc' = "done"

\* lines 202-203: if not input_paths: raise InvalidMarkdownError
MergeRejectEmpty ==
    /\ pc = "read"
    /\ mode = "merge"
    /\ input_paths = <<>>
    /\ inner' = Exc("InvalidMarkdownError", "No markdown files provided for merging",
                    NoPath, NoRef, NoCause)
    /\ raised' = inner'
    /\ outcome' = "InvalidMarkdownError"
    /\ pc' = "done"
    /\ UNCHANGED <<dvars, mode, evars, gvars, toc_html, input_paths, toc_enabled,
                   title_page_enabled, metadata, file_idx, html_bodies, html_body,
                   pdf_metadata, warned, html_doc, base_url, document, destination>>

\* lines 86-111 and 210-224: read one source and convert it
ReadSource ==
    /\ pc = "read"
    /\ file_idx <= Len(input_paths)
    /\ LET src == input_paths[file_idx]
           missing == MissingRefs(src.blocks, src.parent)
       IN  IF ~src.readable
           THEN /\ \E cause \in ReadFailures : Abort(src, ReadError(src, cause))
                /\ UNCHANGED <<html_bodies, file_idx>>
           ELSE IF missing # <<>>
           THEN /\ Abort(src, ImageError(src, missing[1]))
                /\ UNCHANGED <<html_bodies, file_idx>>
           ELSE \/ /\ html_bodies' =
                        Append(html_bodies, ConvertSource(src))
                   /\ file_idx' = file_idx + 1
                   /\ UNCHANGED <<pc, outcome, inner, raised>>
                \/ /\ \E text \in ConvertFailures : Abort(src, LibraryError(text))
                   /\ UNCHANGED <<html_bodies, file_idx>>
    /\ UNCHANGED <<dvars, mode, evars, gvars, toc_html, input_paths, toc_enabled,
                   title_page_enabled, metadata, html_body, pdf_metadata, warned,
                   html_doc, base_url, document, destination>>

\* lines 113-131 and 226-246: the body, the metadata, and the call of
\* extract_headers when the TOC is enabled
BuildBody ==
    /\ pc = "read"
    /\ input_paths # <<>>
    /\ file_idx > Len(input_paths)
    /\ html_body' = IF mode = "file" THEN html_bodies[1] ELSE CombinedHtml(html_bodies)
    /\ pdf_metadata' = ResolveMetadata(metadata,
                          IF mode = "file" THEN input_paths[1].stem ELSE OutputStem)
    /\ IF toc_enabled
       THEN /\ html_content' = html_body'
            /\ pos' = 1
            /\ headers' = <<>>
            /\ seen_ids' = {}
            /\ prev_seen' = {}
            /\ pc' = "extract"
       ELSE /\ pc' = "title"
            /\ UNCHANGED evars
    /\ UNCHANGED <<dvars, rvars, mode, gvars, toc_html, input_paths, toc_enabled,
                   title_page_enabled, metadata, file_idx, html_bodies, warned,
                   outcome>>

\* lines 133-137 and 247-253
InsertToc ==
    /\ pc = "toc"
    /\ IF headers = <<>>
       THEN /\ warned' = TRUE
            /\ UNCHANGED <<toc_html, html_body>>
       ELSE /\ toc_html' = generate_toc_html(headers)
            /\ html_body' = PrependToc(headers, html_body)
            /\ UNCHANGED warned
    /\ pc' = "title"
    /\ UNCHANGED <<dvars, rvars, mode, evars, gvars, input_paths, toc_enabled, title_page_enabled,
                   metadata, file_idx, html_bodies, pdf_metadata, outcome>>

\* lines 139-142 and 255-258
PrependTitlePage ==
    /\ pc = "title"
    /\ IF title_page_enabled
       THEN \E d \in Dates :
               html_body' = generate_title_page_html(pdf_metadata, d) \o html_body
       ELSE UNCHANGED html_body
    /\ pc' = "render"
    /\ UNCHANGED <<dvars, rvars, mode, evars, gvars, toc_html, input_paths, toc_enabled,
                   title_page_enabled, metadata, file_idx, html_bodies,
                   pdf_metadata, warned, outcome>>

\* lines 166-171 and 304-311: the metadata set on the rendered document
DocumentMetadata(md) ==
    [title |-> md.title,
     authors |-> IF md.author # <<>> THEN <<md.author>> ELSE <<>>,
     description |-> md.subject,
     keywords |-> IF md.keywords # <<>> THEN Keywords(md.keywords) ELSE <<>>]

\* lines 144-179 and 260-318: the complete document goes to the renderer
\* with its base_url; the PDF is written, or a failure is handled
Render ==
    /\ pc = "render"
    /\ html_doc' = [title |-> HtmlEscape(pdf_metadata.title), body |-> html_body]
    /\ base_url' = IF mode = "file" THEN input_paths[1].parent
                   ELSE BaseDir(input_paths)
    /\ \/ /\ document' = [images |-> LoadedImages(html_body, base_url')]
                               @@ DocumentMetadata(pdf_metadata)
          /\ destination' = [destination EXCEPT !.now = OnDisk(TRUE, "pdf")]
          /\ outcome' = "ok"
          /\ pc' = "done"
          /\ UNCHANGED <<inner, raised>>
       \/ /\ \E text \in RenderFailures :
                /\ Abort(input_paths[1], LibraryError(text))
                /\ destination' \in
                      {[destination EXCEPT !.now = d] :
                          d \in AfterFailure(text, destination.now)}
          /\ UNCHANGED document
    /\ UNCHANGED <<dvars, mode, evars, gvars, toc_html, input_paths, toc_enabled,
                   title_page_enabled, metadata, file_idx, html_bodies, html_body,
                   pdf_metadata, warned>>

Next ==
    \/ MergeRejectEmpty
    \/ ReadSource
    \/ BuildBody
    \/ ExtractStep
    \/ ExtractReturn
    \/ InsertToc
    \/ PrependTitlePage
    \/ Render

Spec == Init /\ [][Next]_vars

-----------------------------------------------------------------------------
(* convert_directory.  A path is the sequence of its components below        *)
(* input_dir or output_dir, each component a string.                        *)

\* the characters of the file names, in increasing code point order
CodePointOrder == <<"-", ".">> \o DigitChars \o Uppers \o Lowers

Ord(c) == CHOOSE i \in DOMAIN CodePointOrder : CodePointOrder[i] = c

RECURSIVE StrLess(_, _)
\* s < t on Python strings
StrLess(s, t) ==
    IF t = <<>> THEN FALSE
    ELSE IF s = <<>> THEN TRUE
    ELSE IF s[1] # t[1] THEN Ord(s[1]) < Ord(t[1])
    ELSE StrLess(Tail(s), Tail(t))

RECURSIVE PathLess(_, _)
\* p < q on pathlib paths: the lists of components are compared
PathLess(p, q) ==
    IF q = <<>> THEN FALSE
    ELSE IF p = <<>> THEN TRUE
    ELSE IF p[1] # q[1] THEN StrLess(p[1], q[1])
    ELSE PathLess(Tail(p), Tail(q))

\* the files of S listed by decreasing path
ListedReversed(S) ==
    CHOOSE q \in [1..Cardinality(S) -> S] :
        /\ Range(q) = S
        /\ \A i, j \in DOMAIN q : i < j => PathLess(q[j].path, q[i].path)

\* sorted(S), the files ordered by path
Sorted(S) ==
    CHOOSE q \in [1..Cardinality(S) -> S] :
        /\ Range(q) = S
        /\ \A i, j \in DOMAIN q : i < j => PathLess(q[i].path, q[j].path)

\* utils.py lines 6-15
find_markdown_files(directory) == Sorted(directory)

\* index of the last "." of name that starts a suffix, 0 when there is none
SuffixDot(name) ==
    IF \E k \in 2..(Len(name) - 1) : name[k] = "."
    THEN CHOOSE k \in 2..(Len(name) - 1) :
            name[k] = "." /\ \A j \in (k + 1)..Len(name) : name[j] # "."
    ELSE 0

\* PurePath.stem
Stem(path) ==
    LET name == path[Len(path)]
    IN  IF SuffixDot(name) = 0 THEN name ELSE SubSeq(name, 1, SuffixDot(name) - 1)

\* PurePath.parent
Parent(path) == SubSeq(path, 1, Len(path) - 1)

\* utils.py lines 18-44, input_path below input_dir, the result below output_dir
get_output_path(input_path, preserve) ==
    LET pdf_name == Stem(input_path) \o <<".", "p", "d", "f">>
    IN  IF preserve THEN Parent(input_path) \o <<pdf_name>> ELSE <<pdf_name>>

MdName(stem) == stem \o <<".", "m", "d">>

\* the paths rglob("*.md") may yield below input_dir
MdPaths ==
    { <<<<"a">>, MdName(<<"x">>)>>,
      <<<<"b">>, MdName(<<"x">>)>>,
      <<MdName(<<"x">>)>>,
      <<MdName(<<"a">>)>>,
      <<MdName(<<>>)>>,
      <<MdName(MdName(<<>>))>> }

\* a file found: its path and whether read_text succeeds on it
MdFiles == [path : MdPaths, readable : BOOLEAN]

\* the input directories: no two files of one directory share a path
Directories ==
    {d \in SUBSET MdFiles :
        /\ Cardinality(d) <= MaxFiles + 1
        /\ \A f, g \in d : f.path = g.path => f = g}

\* Python's None as the value of result["error"]
NoError == "None"

\* what one convert_file call does: the exception it raises, if any, and
\* what it leaves at output_path: nothing new ("none"), an incomplete file
\* ("partial", write_pdf failed under way) or the PDF ("pdf")
ConvertFileOutcomes(md_file) ==
    IF ~md_file.readable
    THEN {[raised |-> "InvalidMarkdownError", written |-> "none"]}
    ELSE {[raised |-> NoError, written |-> "pdf"],
          [raised |-> "InvalidMarkdownError", written |-> "none"],
          [raised |-> "ConversionError", written |-> "none"],
          [raised |-> "ConversionError", written |-> "partial"]}

\* the files below output_dir after a call that wrote w at output_path
Written(files, output_path, w) ==
    IF w = "none" THEN files
    ELSE {f \in files : f.path # output_path}
             \cup {[path |-> output_path, content |-> w]}

\* converter.py lines 354-372: the result entry of one file
ResultEntry(md_file, output_path, exc) ==
    [input |-> md_file.path, output |-> output_path,
     success |-> exc = NoError, error |-> exc]

InitBatch ==
    /\ pc = "find"
    /\ mode = "directory"
    /\ found \in Directories
    /\ preserve_structure \in BOOLEAN
    /\ markdown_files = <<>>
    /\ md_idx = 1
    /\ convert_calls = <<>>
    /\ results = <<>>
    /\ out_files = {}
    /\ seen_ids = {}
    /\ prev_seen = {}
    /\ IdleGen
    /\ IdleExtract
    /\ IdleCompose
    /\ IdleTitlePage
    /\ IdleStyles
    /\ IdleCli

\* converter.py lines 343-344
FindMarkdownFiles ==
    /\ pc = "find"
    /\ markdown_files' = find_markdown_files(found)
    /\ pc' = "convert"
    /\ UNCHANGED <<mode, evars, gvars, toc_html, cvars, tvars, svars, kvars, found,
                   preserve_structure, md_idx, convert_calls, results, out_files>>

\* converter.py lines 346-372: one turn of the loop
ConvertNext ==
    /\ pc = "convert"
    /\ md_idx <= Len(markdown_files)
    /\ LET md_file == markdown_files[md_idx]
           output_path == get_output_path(md_file.path, preserve_structure)
       IN  \E o \in ConvertFileOutcomes(md_file) :
              /\ convert_calls' = Append(convert_calls,
                                     [input |-> md_file.path, raised |-> o.raised])
              /\ out_files' = Written(out_files, output_path, o.written)
              /\ results' = Append(results,
                                   ResultEntry(md_file, output_path, o.raised))
    /\ md_idx' = md_idx + 1
    /\ UNCHANGED <<pc, mode, evars, gvars, toc_html, cvars, tvars, svars, kvars, found,
                   preserve_structure, markdown_files>>

\* converter.py line 374
ReturnResults ==
    /\ pc = "convert"
    /\ md_idx > Len(markdown_files)
    /\ pc' = "returned"
    /\ UNCHANGED <<mode, evars, gvars, toc_html, cvars, dvars>>

\* generate_title_page_html called on a metadata dict
InitTitlePage ==
    /\ pc = "title_page"
    /\ mode = "title_page"
    /\ tp_metadata \in TitlePageDicts
    /\ title_page_html = <<>>
    /\ seen_ids = {}
    /\ prev_seen = {}
    /\ IdleGen
    /\ IdleExtract
    /\ IdleCompose
    /\ IdleBatch
    /\ IdleStyles
    /\ IdleCli

\* converter.py lines 500-520
GenerateTitlePage ==
    /\ pc = "title_page"
    /\ \E d \in Dates : title_page_html' = generate_title_page_html(tp_metadata, d)
    /\ pc' = "title_page_done"
    /\ UNCHANGED <<mode, evars, gvars, toc_html, cvars, bvars, svars, kvars,
                   tp_metadata>>

NextTitlePage == GenerateTitlePage

SpecTitlePage == InitTitlePage /\ [][NextTitlePage]_vars

\* get_page_number_css and get_page_css called on a config
InitStyles ==
    /\ pc = "styles"
    /\ mode = "styles"
    /\ config \in StyleConfigs
    /\ page_number_css = NotCalled
    /\ page_css = NotCalled
    /\ seen_ids = {}
    /\ prev_seen = {}
    /\ IdleGen
    /\ IdleExtract
    /\ IdleCompose
    /\ IdleBatch
    /\ IdleTitlePage
    /\ IdleCli

\* styles.py lines 18-77
GetPageNumberCss ==
    /\ pc = "styles"
    /\ page_number_css' = get_page_number_css(config)
    /\ pc' = "page_css"
    /\ UNCHANGED <<mode, evars, gvars, toc_html, cvars, bvars, tvars, kvars, config,
                   page_css>>

\* styles.py lines 80-102
GetPageCss ==
    /\ pc = "page_css"
    /\ page_css' = get_page_css(config)
    /\ pc' = "styles_done"
    /\ UNCHANGED <<mode, evars, gvars, toc_html, cvars, bvars, tvars, kvars, config,
                   page_number_css>>

NextStyles == GetPageNumberCss \/ GetPageCss

SpecStyles == InitStyles /\ [][NextStyles]_vars

\* main of cli.py
InitCli ==
    /\ pc = "cli_load"
    /\ mode = "cli"
    /\ env \in Envs
    /\ args \in ArgLists
    /\ exit_code = "running"
    /\ cli_calls = <<>>
    /\ cli_written = 0
    /\ accessed = {}
    /\ style_css = "None"
    /\ cli_results = <<>>
    /\ seen_ids = {}
    /\ prev_seen = {}
    /\ IdleGen
    /\ IdleExtract
    /\ IdleCompose
    /\ IdleBatch
    /\ IdleTitlePage
    /\ IdleStyles

\* cli.py lines 94-104
CliLoadConfig ==
    /\ pc = "cli_load"
    /\ IF load(env).raised # "None" \/ validate(load(env).value) # "None"
       THEN /\ exit_code' = 2
            /\ pc' = "exited"
            /\ UNCHANGED config
       ELSE /\ config' = WithOverride(load(env).value, args)
            /\ pc' = "cli_style"
            /\ UNCHANGED exit_code
    /\ UNCHANGED <<mode, evars, gvars, toc_html, cvars, bvars, tvars, page_number_css,
                   page_css, env, args, cli_calls, cli_written, accessed, style_css,
                   cli_results>>

\* cli.py lines 106-133
CliBuildCss ==
    /\ pc = "cli_style"
    /\ IF BothGiven(args)
       THEN /\ exit_code' = 1
            /\ pc' = "exited"
            /\ UNCHANGED <<page_css, accessed, style_css>>
       ELSE \E theme_found \in BOOLEAN :
               LET loaded == LoadStyle(args, theme_found)
               IN  /\ accessed' = accessed \cup loaded.accessed
                   /\ IF loaded.raised # "None"
                      THEN /\ exit_code' = 1
                           /\ pc' = "exited"
                           /\ UNCHANGED <<page_css, style_css>>
                      ELSE /\ style_css' = loaded.value
                           /\ page_css' = get_page_css(config)
                           /\ pc' = "cli_convert"
                           /\ UNCHANGED exit_code
    /\ UNCHANGED <<mode, evars, gvars, toc_html, cvars, bvars, tvars, config,
                   page_number_css, env, args, cli_calls, cli_written, cli_results>>

\* cli.py lines 153-266
CliConvert ==
    /\ pc = "cli_convert"
    /\ IF args.kind = "file"
       THEN /\ cli_calls' = Append(cli_calls, "convert_file")
            /\ \E ok \in BOOLEAN :
                  /\ cli_results' = <<ok>>
                  /\ exit_code' = IF ok THEN 0 ELSE 1
                  /\ cli_written' = IF ok THEN cli_written + 1 ELSE cli_written
       ELSE IF args.kind = "dir"
       THEN /\ cli_calls' = Append(cli_calls, "convert_directory")
            /\ \E flags \in StringsUpTo(BOOLEAN, MaxFiles) :
                  /\ cli_results' = flags
                  /\ exit_code' = DirectoryExit(flags)
                  /\ cli_written' =
                        cli_written + Cardinality({i \in DOMAIN flags : flags[i]})
       ELSE /\ exit_code' = 2
            /\ UNCHANGED <<cli_calls, cli_written, cli_results>>
    /\ pc' = "exited"
    /\ UNCHANGED <<mode, evars, gvars, toc_html, cvars, bvars, tvars, svars, env, args,
                   accessed, style_css>>

NextCli == CliLoadConfig \/ CliBuildCss \/ CliConvert

SpecCli == InitCli /\ [][NextCli]_vars

NextBatch == FindMarkdownFiles \/ ConvertNext \/ ReturnResults

SpecBatch == InitBatch /\ [][NextBatch]_vars

-----------------------------------------------------------------------------
(* Properties of generate_anchor_id *)

PairwiseDistinct(q) == \A i, j \in DOMAIN q : i # j => q[i] # q[j]

\* C3: every generate_anchor_id call on a shared seen set returns an id that
\* was not in seen before the call and is in seen after it, seen grows by
\* exactly that id, and the ids returned over the calls are pairwise distinct.
C3_FreshIds ==
    /\ returned # <<>> =>
          /\ gen_ret \notin prev_seen
          /\ gen_ret \in seen_ids
          /\ seen_ids = prev_seen \cup {gen_ret}
          /\ Cardinality(seen_ids) = Cardinality(prev_seen) + 1
    /\ PairwiseDistinct(returned)

\* two calls for the same candidate: the second one gets the -2 suffix
C3_Witness ==
    /\ Len(returned) = 2
    /\ returned[1] = <<"a">>
    /\ returned[2] = <<"a","-","2">>

\* C4: every id returned by generate_anchor_id matches ^[a-zA-Z][\w-]*$
C4_IdsMatchFormat == \A i \in DOMAIN returned : ValidIdFormat(returned[i])

-----------------------------------------------------------------------------
(* Properties of extract_headers *)

\* C1: no two heading records of one extract_headers call share an anchor_id
C1_UniqueAnchorIds ==
    \A i, j \in DOMAIN headers : i # j => headers[i].anchor_id # headers[j].anchor_id

\* an h1/h2 element whose text is not empty after tag stripping and trimming
IsListedHeading(el) ==
    /\ el.tag \in {<<"h","1">>, <<"H","1">>, <<"h","2">>, <<"H","2">>}
    /\ \E i \in DOMAIN el.content :
           el.content[i] \notin Whitespace /\ ~IsTagToken(el.content[i])

ListedHeadings(frag) == SelectSeq(frag, IsListedHeading)

TagLevel(el) == IF el.tag[2] = "1" THEN 1 ELSE 2

\* C6: the records are the h1/h2 elements with non-empty text, in document
\* order, each with the level of its own tag
C6_DocumentOrder ==
    LET done == ListedHeadings(SubSeq(html_content, 1, pos - 1))
    IN  /\ Len(headers) = Len(done)
        /\ \A i \in DOMAIN headers :
              /\ headers[i].level = TagLevel(done[i])
              /\ headers[i].text = HeaderText(done[i].content)

\* an h2 listed before an h1: the levels interleave as in the fragment
C6_Witness ==
    /\ pc = "extracted"
    /\ Len(headers) = 2
    /\ headers[1].level = 2
    /\ headers[2].level = 1

\* the element has an id attribute
HasIdAttr(el) == \E i \in DOMAIN el.attrs : el.attrs[i].name = IdName

\* the value of the element's id attribute, trimmed
IdAttr(el) ==
    Strip(el.attrs[CHOOSE i \in DOMAIN el.attrs : el.attrs[i].name = IdName].value,
          Whitespace)

\* C7: an explicit id (the trimmed value of the id attribute) that fails the
\* format ^[a-zA-Z][\w-]*$ is replaced by the id generated from the heading
\* text, and one that satisfies it is the record's anchor_id, wherever the id
\* attribute stands in the opening tag
C7_ExplicitIdPolicy ==
    (pos > 1 /\ pos <= Len(html_content) + 1 /\ pc = "extract"
        /\ IsListedHeading(html_content[pos - 1])) =>
        LET el == html_content[pos - 1]
            rec == headers[Len(headers)]
        IN  IF HasIdAttr(el) /\ ValidIdFormat(IdAttr(el))
            THEN rec.anchor_id = IdAttr(el)
            ELSE rec.anchor_id = generate_anchor_id(rec.text, prev_seen)

\* the characters of s from position i on start with a character reference
RefAt(s, i) == \E k \in DOMAIN Entities : HasPrefix(SubSeq(s, i, Len(s)), Entities[k].ref)

\* no character of s can open or close a tag or an attribute value
NoRawMarkup(s) ==
    \A i \in DOMAIN s :
        /\ s[i] \notin {"<", ">", "\"", "'"}
        /\ s[i] = "&" => RefAt(s, i)

\* C8: generate_toc_html gives nothing for an empty list, and otherwise one
\* <li> per record, in list order, of class toc-h<level>, linking to
\* #anchor_id, whose text is the heading text with < > & " ' escaped
C8_TocEntries ==
    pc = "toc_done" =>
        IF headers = <<>> THEN toc_html = <<>>
        ELSE /\ Len(toc_html) = 2
             /\ toc_html[1] = TocTitleElement
             /\ Len(toc_html[2].items) = Len(headers)
             /\ \A i \in DOMAIN headers :
                   LET li == toc_html[2].items[i]
                   IN  /\ li.css_class = <<"t","o","c","-","h">>
                                             \o <<DigitChars[headers[i].level + 1]>>
                       /\ li.href = <<"#">> \o headers[i].anchor_id
                       /\ NoRawMarkup(li.label)
                       /\ HtmlUnescape(li.label) = headers[i].text

\* a TOC of two entries, one of them for a text made of & " ' >
C8_Witness ==
    /\ pc = "toc_done"
    /\ Len(headers) = 2
    /\ headers[1].level = 2
    /\ headers[2].text = <<"&", "\"", "'", ">">>
    /\ toc_html # <<>>

-----------------------------------------------------------------------------
(* Properties of convert_file and convert_merge *)

\* the TOC was inserted and the document assembled
TocInserted == pc \in {"title", "render", "done"} /\ toc_enabled /\ headers # <<>>

\* C2: every TOC entry's href names the id its heading element carries in
\* the assembled body
C2_TocTargetsExist ==
    TocInserted =>
        LET hs == ListedHeadings(html_content)
        IN  \A i \in DOMAIN headers :
              /\ i \in DOMAIN hs
              /\ HasIdAttr(hs[i])
              /\ toc_html[2].items[i].href
                     = <<"#">> \o hs[i].attrs[CHOOSE k \in DOMAIN hs[i].attrs :
                                                hs[i].attrs[k].name = IdName].value

IsHeadingElement(el) ==
    /\ Len(el.tag) = 2
    /\ el.tag[1] \in {"h", "H"}
    /\ el.tag[2] \in {"1", "2", "3", "4", "5", "6"}

\* C5: in a merged document no two heading elements from different source
\* files carry the same id, and the TOC links to pairwise distinct anchors
C5_MergedIdsUnique ==
    (mode = "merge" /\ pc \in {"title", "render"} /\ PairwiseDistinct(input_paths)) =>
        /\ \A f, g \in DOMAIN html_bodies : f # g =>
              \A k \in DOMAIN html_bodies[f], l \in DOMAIN html_bodies[g] :
                 LET a == html_bodies[f][k]
                     b == html_bodies[g][l]
                 IN  (IsHeadingElement(a) /\ IsHeadingElement(b)
                         /\ HasIdAttr(a) /\ HasIdAttr(b)) => IdAttr(a) # IdAttr(b)
        /\ toc_enabled => PairwiseDistinct([i \in DOMAIN headers |-> headers[i].anchor_id])

RECURSIVE Offset(_, _)
\* the number of elements that stand before fragment i in the merged body
Offset(bodies, i) ==
    IF i = 1 THEN 0 ELSE Offset(bodies, i - 1) + Len(bodies[i - 1]) + 1

\* C9: the merged body is the N converted fragments in input order, with
\* one page break between consecutive fragments and none elsewhere
C9_MergeOrder ==
    (mode = "merge" /\ (pc \in {"extract", "toc"} \/ (pc = "title" /\ ~toc_enabled))) =>
        LET N == Len(input_paths)
        IN  /\ N >= 1
            /\ Len(html_bodies) = N
            /\ \A i \in 1..N :
                  /\ html_bodies[i] = ConvertSource(input_paths[i])
                  /\ SubSeq(html_body, Offset(html_bodies, i) + 1,
                            Offset(html_bodies, i) + Len(html_bodies[i])) = html_bodies[i]
                  /\ i < N =>
                        html_body[Offset(html_bodies, i) + Len(html_bodies[i]) + 1] = PageBreak
            /\ Len(html_body) = Offset(html_bodies, N) + Len(html_bodies[N])

\* two different fragments were merged
C9_Witness ==
    /\ mode = "merge"
    /\ pc = "toc"
    /\ Len(html_bodies) = 2
    /\ html_bodies[1] # <<>>
    /\ html_bodies[2] # <<>>
    /\ html_bodies[1] # html_bodies[2]

\* the converted body of the document, before TOC and title page
ConvertedBody ==
    IF mode = "file" THEN ConvertSource(input_paths[1]) ELSE CombinedHtml(html_bodies)

\* C10: the renderer gets the title page iff title_page_enabled, then the TOC
\* iff toc_enabled and a heading was extracted, then the body; with
\* toc_enabled and no heading there is a warning and no failure
C10_Assembly ==
    /\ (pc = "render" \/ (pc = "done" /\ html_doc # NoHtmlDoc)) =>
          LET hasHeadings == ListedHeadings(ConvertedBody) # <<>>
              toc == IF toc_enabled /\ hasHeadings
                     THEN generate_toc_html(headers) ELSE <<>>
          IN  /\ (toc_enabled /\ hasHeadings) => toc # <<>>
              /\ warned <=> (toc_enabled /\ ~hasHeadings)
              /\ \E d \in Dates :
                    html_body =
                        (IF title_page_enabled
                         THEN generate_title_page_html(pdf_metadata, d) ELSE <<>>)
                        \o toc \o ConvertedBody
    /\ warned => outcome # "InvalidMarkdownError"

\* a conversion with TOC and title page enabled and no heading ended well
C10_Witness ==
    /\ pc = "done"
    /\ outcome = "ok"
    /\ toc_enabled
    /\ title_page_enabled
    /\ warned

-----------------------------------------------------------------------------
(* Properties of convert_directory *)

\* C11: convert_directory always runs to completion; what it returns has
\* exactly one result per file found, in the sorted order of the paths;
\* convert_file was called once per file, in that order; a failed call is
\* recorded in its own result (success false, error set) and the files after
\* it are still converted.
C11_BatchCompletes ==
    /\ pc \in {"find", "convert"} => ENABLED NextBatch
    /\ Len(results) = md_idx - 1
    /\ Len(convert_calls) = Len(results)
    /\ \A i \in DOMAIN results :
          /\ results[i].input = convert_calls[i].input
          /\ results[i].success <=> convert_calls[i].raised = NoError
          /\ results[i].success <=> results[i].error = NoError
    /\ pc = "returned" =>
          /\ Len(results) = Cardinality(found)
          /\ {results[i].input : i \in DOMAIN results} = {f.path : f \in found}
          /\ \A i, j \in DOMAIN results :
                i < j => PathLess(results[i].input, results[j].input)

\* C11 happens: a returned batch in which a file failed and a file sorted
\* after it was converted
C11_Witness ==
    /\ pc = "returned"
    /\ \E i, j \in DOMAIN results :
          i < j /\ ~results[i].success /\ results[j].success

\* C12: after convert_directory returns, a result's success flag is true
\* exactly when its destination file holds a valid PDF.
C12_SuccessIffPdf ==
    pc = "returned" =>
        \A i \in DOMAIN results :
            results[i].success <=>
                [path |-> results[i].output, content |-> "pdf"] \in out_files

-----------------------------------------------------------------------------
(* Properties of generate_title_page_html *)

\* the elements of frag that are a p of class cls
LinesOf(frag, cls) ==
    SelectSeq(frag, LAMBDA el : el.tag = <<"p">> /\ el.attrs = <<Attr(ClassName, cls)>>)

\* C19: the title page shows the HTML-escaped title, or Untitled when the
\* title is absent, None or empty; it has an author line, HTML-escaped, exactly
\* when the author is non-empty; and it always has a date line.
C19_TitlePage ==
    pc = "title_page_done" =>
        LET hasTitle == "title" \in DOMAIN tp_metadata
                           /\ tp_metadata["title"] \notin {NoneVal, <<>>}
            hasAuthor == "author" \in DOMAIN tp_metadata
                            /\ tp_metadata["author"] \notin {NoneVal, <<>>}
            shown == IF hasTitle THEN tp_metadata["title"] ELSE Untitled
        IN  /\ title_page_html[1] = Element(<<"h","1">>, <<>>, HtmlEscape(shown))
            /\ NoRawMarkup(title_page_html[1].content)
            /\ HtmlUnescape(title_page_html[1].content) = shown
            /\ Len(SelectSeq(title_page_html, LAMBDA el : el.tag = <<"h","1">>)) = 1
            /\ hasAuthor <=> LinesOf(title_page_html, AuthorClass) # <<>>
            /\ hasAuthor =>
                  /\ Len(LinesOf(title_page_html, AuthorClass)) = 1
                  /\ LinesOf(title_page_html, AuthorClass)[1].content
                        = HtmlEscape(tp_metadata["author"])
                  /\ NoRawMarkup(LinesOf(title_page_html, AuthorClass)[1].content)
            /\ Len(LinesOf(title_page_html, DateClass)) = 1
            /\ \E d \in Dates :
                  LinesOf(title_page_html, DateClass)[1].content = HtmlEscape(d)

\* C19 happens: a title page for a dict without a title, with an author whose
\* name has to be escaped
C19_Witness ==
    /\ pc = "title_page_done"
    /\ "title" \notin DOMAIN tp_metadata
    /\ "author" \in DOMAIN tp_metadata
    /\ tp_metadata["author"] = <<"T", "&">>
    /\ Len(title_page_html) = 3

-----------------------------------------------------------------------------
(* Properties of convert_file and convert_merge *)

\* C13: a failed convert_file or convert_merge raises InvalidMarkdownError or
\* ConversionError; an InvalidMarkdownError raised inside leaves unchanged;
\* any other failure leaves as a ConversionError that carries the path of a
\* source and the text of the failure.
C13_ErrorPolicy ==
    (pc = "done" /\ outcome # "ok") =>
        /\ raised.type \in {"InvalidMarkdownError", "ConversionError"}
        /\ outcome = raised.type
        /\ inner.type = "InvalidMarkdownError" => raised = inner
        /\ inner.type # "InvalidMarkdownError" =>
              /\ raised.type = "ConversionError"
              /\ raised.cause = inner.text
              /\ \E i \in DOMAIN input_paths : raised.path = PathOf(input_paths[i])

\* the image references of a block: of a Markdown image, and of an img
\* element written as raw HTML
RefsOfBlock(b) ==
    IF b.kind = "image" /\ b.ref # <<>> THEN <<b.ref>>
    ELSE IF b.kind = "html" /\ IsImg(b.element) THEN <<SrcOf(b.element)>>
    ELSE <<>>

RECURSIVE ImageRefs(_)
\* the image references of a sequence of blocks, in document order
ImageRefs(blocks) ==
    IF blocks = <<>> THEN <<>>
    ELSE RefsOfBlock(blocks[1]) \o ImageRefs(Tail(blocks))

\* the file a reference of a source in directory dir stands for
TargetOf(ref, dir) == IF IsAbsolute(ref) THEN ref ELSE Resolve(dir \o ref)

RECURSIVE ExpectedTargets(_)
\* the files the references of the sources stand for, in document order
ExpectedTargets(paths) ==
    IF paths = <<>> THEN <<>>
    ELSE [k \in DOMAIN ImageRefs(paths[1].blocks) |->
             TargetOf(ImageRefs(paths[1].blocks)[k], paths[1].parent)]
         \o ExpectedTargets(Tail(paths))

\* C14: every image of the rendered document is loaded from the file its
\* reference stands for in the directory of its own source (an absolute
\* reference from the path it names), and that file exists; a readable source
\* with a reference whose file does not exist ends the conversion with an
\* InvalidMarkdownError that names the reference and the source.
C14_ImageResolution ==
    /\ (pc = "done" /\ outcome = "ok") =>
          /\ [k \in DOMAIN document.images |-> document.images[k].target]
                = ExpectedTargets(input_paths)
          /\ \A k \in DOMAIN document.images : document.images[k].loaded
    /\ (pc = "done" /\ file_idx <= Len(input_paths)
           /\ input_paths[file_idx].readable) =>
          LET src == input_paths[file_idx]
              refs == ImageRefs(src.blocks)
          IN  \A k \in DOMAIN refs :
                 (/\ ~Exists(TargetOf(refs[k], src.parent))
                  /\ \A j \in 1..(k - 1) : Exists(TargetOf(refs[j], src.parent)))
                 => raised = Exc("InvalidMarkdownError", "Image not found: ",
                                 PathOf(src), refs[k], NoCause)

\* C15: convert_merge raises InvalidMarkdownError for an empty source list,
\* and for a source that cannot be read, at whatever position, when the
\* sources before it were read and converted; it never goes past such a
\* source and never succeeds.
C15_MergeRejects ==
    (mode = "merge" /\ pc = "done") =>
        /\ input_paths = <<>> => outcome = "InvalidMarkdownError"
        /\ \A k \in DOMAIN input_paths :
              ~input_paths[k].readable =>
                  /\ file_idx <= k
                  /\ outcome # "ok"
                  /\ file_idx = k =>
                        /\ outcome = "InvalidMarkdownError"
                        /\ raised.type = "InvalidMarkdownError"
                        /\ raised.path = PathOf(input_paths[k])
                        /\ Len(html_bodies) = k - 1

\* C15 happens: the second source of a merge cannot be read after the first
\* was read and converted
C15_Witness ==
    /\ mode = "merge"
    /\ pc = "done"
    /\ Len(input_paths) = 2
    /\ input_paths[1].readable
    /\ ~input_paths[2].readable
    /\ Len(html_bodies) = 1
    /\ outcome = "InvalidMarkdownError"

\* the title the caller's metadata and the file names resolve to
ExpectedTitle ==
    IF metadata.present /\ metadata.title \notin {NoneVal, <<>>}
    THEN metadata.title
    ELSE IF mode = "file" THEN input_paths[1].stem ELSE OutputStem

\* C18: the resolved title is the caller's metadata title when it is
\* non-empty, and otherwise the base name of the source (convert_file) or of
\* the destination (convert_merge); the <title> of the HTML document, the
\* title of the PDF and the h1 of the title page all hold that title.
C18_ResolvedTitle ==
    /\ pc \in {"extract", "toc", "title", "render"} =>
          pdf_metadata.title = ExpectedTitle
    /\ (pc = "done" /\ html_doc # NoHtmlDoc) =>
          /\ pdf_metadata.title = ExpectedTitle
          /\ html_doc.title = HtmlEscape(ExpectedTitle)
          /\ HtmlUnescape(html_doc.title) = ExpectedTitle
          /\ title_page_enabled =>
                html_doc.body[1] = Element(<<"h","1">>, <<>>, HtmlEscape(ExpectedTitle))
    /\ (pc = "done" /\ outcome = "ok") => document.title = ExpectedTitle

\* C18 happens: a merge with a title page whose metadata has an empty title
\* was rendered, and a conversion whose metadata title needs escaping
C18_Witness ==
    /\ pc = "done"
    /\ outcome = "ok"
    /\ title_page_enabled
    /\ mode = "merge"
    /\ metadata.present
    /\ metadata.title = <<>>
    /\ document.title = OutputStem

-----------------------------------------------------------------------------
(* Properties of the styles functions *)

\* the escaped text of a literal, character by character
EscapedLiteral(text) ==
    Flatten([i \in DOMAIN text |->
                IF text[i] = "\\" THEN <<"\\", "\\">>
                ELSE IF text[i] = "\"" THEN <<"\\", "\"">>
                ELSE IF text[i] = "\n" THEN <<"\\", "n">>
                ELSE <<text[i]>>])

LiteralToken(text) ==
    IF text = <<>> THEN <<>> ELSE <<[kind |-> "string", text |-> EscapedLiteral(text)]>>

RECURSIVE EarliestScan(_)
\* the tokens of a format when the earliest placeholder is taken next
EarliestScan(fmt) ==
    IF fmt = <<>> THEN <<>>
    ELSE IF ~Contains(fmt, PagePlaceholder) /\ ~Contains(fmt, PagesPlaceholder)
    THEN LiteralToken(fmt)
    ELSE IF Contains(fmt, PagePlaceholder)
            /\ (Contains(fmt, PagesPlaceholder)
                  => Find(fmt, PagePlaceholder) < Find(fmt, PagesPlaceholder))
    THEN LiteralToken(Before(fmt, PagePlaceholder))
            \o <<[kind |-> "counter", name |-> "page"]>>
            \o EarliestScan(After(fmt, PagePlaceholder))
    ELSE LiteralToken(Before(fmt, PagesPlaceholder))
            \o <<[kind |-> "counter", name |-> "pages"]>>
            \o EarliestScan(After(fmt, PagesPlaceholder))

\* C16: the content of the page-number box is the format scanned left to
\* right with the earliest of {page} and {pages} taken next: a counter per
\* placeholder, a quoted string with backslash, double quote and newline
\* escaped per non-empty literal between them, in the order of the format,
\* and no placeholder text inside a literal; "{page}/{pages}" gives
\* counter(page) "/" counter(pages).
C16_FormatScan ==
    (pc \in {"page_css", "styles_done"} /\ page_number_css.raised = "None"
        /\ page_number_css.value # <<>>) =>
        LET parts == page_number_css.value[1].content_parts
        IN  /\ parts = EarliestScan(config.page_number_format)
            /\ \A i \in DOMAIN parts :
                  parts[i].kind = "string" =>
                      /\ parts[i].text # <<>>
                      /\ ~Contains(parts[i].text, PagePlaceholder)
                      /\ ~Contains(parts[i].text, PagesPlaceholder)
            /\ config.page_number_format
                  = PagePlaceholder \o <<"/">> \o PagesPlaceholder =>
                  page_number_css.value[1].content
                      = <<"c","o","u","n","t","e","r","(","p","a","g","e",")",
                          " ","\"","/","\""," ",
                          "c","o","u","n","t","e","r","(","p","a","g","e","s",")">>

\* C17: get_page_number_css returns the empty string when page numbers are
\* disabled; when they are enabled it returns the box @bottom-left,
\* @bottom-center or @bottom-right for left, center or right and raises for
\* any other position; what get_page_css returns holds a page-number box
\* exactly when page numbers are enabled.
C17_PageNumberBox ==
    /\ pc \in {"page_css", "styles_done"} =>
          /\ ~config.enable_page_numbers => page_number_css = Returned(<<>>)
          /\ config.enable_page_numbers =>
                /\ config.page_number_position = "left" =>
                      /\ page_number_css.raised = "None"
                      /\ Len(page_number_css.value) = 1
                      /\ page_number_css.value[1].margin_box = "@bottom-left"
                /\ config.page_number_position = "center" =>
                      /\ page_number_css.raised = "None"
                      /\ Len(page_number_css.value) = 1
                      /\ page_number_css.value[1].margin_box = "@bottom-center"
                /\ config.page_number_position = "right" =>
                      /\ page_number_css.raised = "None"
                      /\ Len(page_number_css.value) = 1
                      /\ page_number_css.value[1].margin_box = "@bottom-right"
                /\ config.page_number_position \notin {"left", "center", "right"} =>
                      page_number_css.raised = "ValueError"
    /\ (pc = "styles_done" /\ page_css.raised = "None") =>
          (config.enable_page_numbers <=> page_css.value[1].page_number_css # <<>>)
    /\ (pc = "styles_done" /\ page_css.raised # "None") =>
          /\ config.enable_page_numbers
          /\ config.page_number_position \notin {"left", "center", "right"}

\* C17 happens: page numbers enabled at the right, and enabled at a position
\* that is none of the three
C17_Witness ==
    /\ pc = "styles_done"
    /\ config.enable_page_numbers
    /\ config.page_number_position = "right"
    /\ page_css.raised = "None"
    /\ page_css.value[1].page_number_css[1].margin_box = "@bottom-right"

-----------------------------------------------------------------------------
(* Properties of the configuration and of main *)

\* the margin m of the environment ends in a unit
HasUnit(m) ==
    \/ EndsWith(env[m], <<"c","m">>)
    \/ EndsWith(env[m], <<"m","m">>)
    \/ EndsWith(env[m], <<"i","n">>)
    \/ EndsWith(env[m], <<"p","t">>)
    \/ EndsWith(env[m], <<"p","x">>)

\* C20: with a page size outside A4, A3, A5, Letter, Legal, or a margin that
\* does not end in cm, mm, in, pt or px, validation rejects the configuration
\* and main exits with code 2 without having started a conversion or written
\* a file.
C20_InvalidConfigExits ==
    (pc # "cli_load"
       /\ (\/ env.PDF_PAGE_SIZE \notin {"A4", "A3", "A5", "Letter", "Legal"}
           \/ ~HasUnit("margin_top") \/ ~HasUnit("margin_bottom")
           \/ ~HasUnit("margin_left") \/ ~HasUnit("margin_right"))) =>
        /\ load(env).raised = "None" => validate(load(env).value) = "ValueError"
        /\ pc = "exited"
        /\ exit_code = 2
        /\ cli_calls = <<>>
        /\ cli_written = 0
        /\ page_css = NotCalled

\* C20 happens: main has exited on a configuration whose page size is valid
\* and whose left margin has no unit
C20_Witness ==
    /\ pc = "exited"
    /\ exit_code = 2
    /\ env.PDF_PAGE_SIZE = "A4"
    /\ env.margin_left = <<"1","0">>
    /\ env.margin_top = DefaultMargin

\* C21: with a configuration that passes validation, a run given both a theme and a CSS path exits with code 1 having
\* looked for no style resource and started no conversion; a run given a
\* theme name that is not a built-in theme, or a CSS path with no file,
\* exits with an error, starts no conversion and never takes the default
\* theme in its place.
C21_StyleFlags ==
    (mode = "cli" /\ pc \in {"cli_convert", "exited"}
        /\ load(env).raised = "None" /\ validate(load(env).value) = "None") =>
        /\ (args.theme # "None" /\ args.css # "None") =>
              /\ pc = "exited"
              /\ exit_code = 1
              /\ accessed = {}
              /\ cli_calls = <<>>
        /\ ((args.theme # "None" /\ args.css = "None"
               /\ args.theme \notin {"github", "minimal", "academic", "dark", "modern"})
            \/ (args.theme = "None" /\ args.css = "missing")) =>
              /\ pc = "exited"
              /\ exit_code = 1
              /\ style_css = "None"
              /\ cli_calls = <<>>

\* the conversions of the run that succeeded, and those that failed
Converted == {i \in DOMAIN cli_results : cli_results[i]}
Failed == {i \in DOMAIN cli_results : ~cli_results[i]}

\* C22: a directory run exits with 0 when every file found converted or no
\* file was found, with 1 when some file converted and some file failed, with
\* 2 when every file failed; a single-file run exits with 0 when the
\* conversion succeeded and with 1 when it failed.
C22_ExitCodes ==
    (mode = "cli" /\ pc = "exited" /\ cli_calls # <<>>) =>
        /\ args.kind = "dir" =>
              /\ cli_calls = <<"convert_directory">>
              /\ Failed = {} => exit_code = 0
              /\ (Converted # {} /\ Failed # {}) => exit_code = 1
              /\ (Converted = {} /\ Failed # {}) => exit_code = 2
        /\ args.kind = "file" =>
              /\ cli_calls = <<"convert_file">>
              /\ Len(cli_results) = 1
              /\ exit_code = IF cli_results[1] THEN 0 ELSE 1

\* C22 happens: a directory run has ended with one file converted and one
\* failed
C22_Witness ==
    /\ pc = "exited"
    /\ args.kind = "dir"
    /\ cli_results = <<TRUE, FALSE>>
    /\ exit_code = 1

\* C23: the page-number format of a loaded configuration has at most 100
\* characters: a longer setting is cut to its first 100 characters, a setting
\* of at most 100 characters is kept as it is.
C23_FormatCapped ==
    (mode = "cli" /\ pc \in {"cli_style", "cli_convert"}) =>
        /\ Len(config.page_number_format) <= 100
        /\ Len(env.PAGE_NUMBER_FORMAT) > 100 =>
              /\ Len(config.page_number_format) = 100
              /\ \A i \in 1..100 :
                    config.page_number_format[i] = env.PAGE_NUMBER_FORMAT[i]
        /\ Len(env.PAGE_NUMBER_FORMAT) <= 100 =>
              config.page_number_format = env.PAGE_NUMBER_FORMAT

\* C23 happens: a configuration has been loaded from a setting longer than
\* 100 characters
C23_Witness ==
    /\ pc = "cli_style"
    /\ Len(env.PAGE_NUMBER_FORMAT) > 101
    /\ Len(config.page_number_format) = 100

-----------------------------------------------------------------------------
(* Properties of generate_anchor_id on one text *)

\* the text with "-" and the decimal digits of k appended
WithCounter(c, k) == c \o <<"-">> \o IntToStr(k)

\* C24: when the sanitised candidate c of the text is already in seen, the
\* call returns c-k for the smallest k >= 2 with c-k not in seen, and k is at
\* most the size of seen plus one, so the search ends; calls repeated on
\* "Introduction" return introduction, introduction-2, introduction-3.
C24_SmallestFreeSuffix ==
    (mode = "anchor" /\ returned # <<>>) =>
        /\ base_id(gen_text) \in prev_seen =>
              \E k \in 2..(Cardinality(prev_seen) + 1) :
                  /\ gen_ret = WithCounter(base_id(gen_text), k)
                  /\ gen_ret \notin prev_seen
                  /\ \A j \in 2..(k - 1) :
                        WithCounter(base_id(gen_text), j) \in prev_seen
        /\ (gen_text = Introduction /\ Len(returned) = 3
              /\ seen_ids = {returned[i] : i \in 1..3}) =>
              returned = << <<"i","n","t","r","o","d","u","c","t","i","o","n">>,
                            <<"i","n","t","r","o","d","u","c","t","i","o","n","-","2">>,
                            <<"i","n","t","r","o","d","u","c","t","i","o","n","-","3">> >>

\* C24 happens: a call with seen = {a, a-3} has returned a-2
C24_Witness ==
    /\ mode = "anchor"
    /\ prev_seen = {<<"a">>, <<"a","-","3">>}
    /\ base_id(gen_text) = <<"a">>
    /\ gen_ret = <<"a","-","2">>

\* the reference sanitiser, step by step
RefLowerCase(c) ==
    CASE c = "A" -> "a" [] c = "B" -> "b" [] c = "F" -> "f" [] c = "I" -> "i"
      [] c = "Q" -> "q" [] c = "T" -> "t" [] OTHER -> c

RefKept ==
    {"a","b","c","d","e","f","g","h","i","j","k","l","m","n","o","p","q","r",
     "s","t","u","v","w","x","y","z","0","1","2","3","4","5","6","7","8","9","-"}

RefHyphenated(text) ==
    [i \in DOMAIN text |-> IF text[i] = " " THEN "-" ELSE RefLowerCase(text[i])]

RefDeleted(text) == SelectSeq(RefHyphenated(text), LAMBDA c : c \in RefKept)

RECURSIVE RefCollapsed(_)
RefCollapsed(s) ==
    IF Len(s) < 2 THEN s
    ELSE IF s[1] = "-" /\ s[2] = "-" THEN RefCollapsed(Tail(s))
    ELSE <<s[1]>> \o RefCollapsed(Tail(s))

RECURSIVE RefTrimmed(_)
RefTrimmed(s) ==
    IF s = <<>> THEN s
    ELSE IF s[1] = "-" THEN RefTrimmed(Tail(s))
    ELSE IF s[Len(s)] = "-" THEN RefTrimmed(SubSeq(s, 1, Len(s) - 1))
    ELSE s

RefSanitized(text) ==
    IF RefTrimmed(RefCollapsed(RefDeleted(text))) = <<>>
    THEN <<"h","e","a","d","i","n","g">>
    ELSE RefTrimmed(RefCollapsed(RefDeleted(text)))

\* C25: called with an empty seen set, generate_anchor_id returns the text
\* lower-cased, with each space made a hyphen, every character outside
\* [a-z0-9-] deleted, runs of hyphens collapsed and the hyphens at both ends
\* trimmed, or "heading" when nothing is left ("!!!" gives heading,
\* "FAQ's & Tips!" gives faqs-tips); the result is never empty.
C25_Sanitised ==
    (mode = "anchor" /\ Len(returned) = 1 /\ prev_seen = {}) =>
        /\ gen_ret = RefSanitized(gen_text)
        /\ gen_ret # <<>>
        /\ gen_text = <<"!","!","!">> => gen_ret = <<"h","e","a","d","i","n","g">>
        /\ gen_text = FaqsAndTips =>
              gen_ret = <<"f","a","q","s","-","t","i","p","s">>

\* C25 happens: the first call on "FAQ's & Tips!" with an empty seen set has
\* returned
C25_Witness ==
    /\ mode = "anchor"
    /\ Len(returned) = 1
    /\ prev_seen = {}
    /\ gen_text = FaqsAndTips
    /\ gen_ret = <<"f","a","q","s","-","t","i","p","s">>

-----------------------------------------------------------------------------
(* Properties of explicit ids inside one extract_headers call *)

\* the heading elements the loop has recorded so far, in fragment order
Recorded ==
    SelectSeq(SubSeq(html_content, 1, pos - 1),
              LAMBDA el : TagMatches(el.tag) /\ HeaderText(el.content) # <<>>)

\* the loop took the id of the i-th recorded heading from its opening tag
ExplicitAt(i) == KeepsExplicitId(ExplicitId(Recorded[i].attrs))

\* C26: inside one extract_headers call an explicit id that was accepted is
\* in the seen set from then on, and no id generated for a later heading
\* equals it: a later heading whose text sanitises to that id gets the id
\* with the first free suffix, -2 when no other heading took it.
C26_ExplicitIdReserved ==
    (mode = "extract" /\ Len(headers) = Len(Recorded)) =>
        \A i \in DOMAIN headers :
            ExplicitAt(i) =>
                /\ headers[i].anchor_id \in seen_ids
                /\ \A j \in (i + 1)..Len(headers) :
                      ~ExplicitAt(j) =>
                          /\ headers[j].anchor_id # headers[i].anchor_id
                          /\ base_id(headers[j].text) = headers[i].anchor_id =>
                                \E k \in 2..(Len(headers) + 1) :
                                    /\ headers[j].anchor_id =
                                          WithCounter(headers[i].anchor_id, k)
                                    /\ \A n \in 2..(k - 1) :
                                          \E m \in 1..(j - 1) :
                                              headers[m].anchor_id =
                                                  WithCounter(headers[i].anchor_id, n)
                                    /\ (Len(headers) = 2 => k = 2)

\* C26 happens: a heading with the explicit id a is followed by a heading
\* without id whose text sanitises to a, which got a-2
C26_Witness ==
    /\ mode = "extract"
    /\ Len(headers) = 2
    /\ Len(Recorded) = 2
    /\ ExplicitAt(1)
    /\ ~ExplicitAt(2)
    /\ headers[1].anchor_id = <<"a">>
    /\ headers[2].anchor_id = <<"a","-","2">>

-----------------------------------------------------------------------------
(* Properties of the merge base path *)

\* the directories of the sources of the conversion
SourceDirs == {input_paths[i].parent : i \in DOMAIN input_paths}

\* d is an ancestor of, or is, every directory of the sources
CommonAncestor(d) == \A parent \in SourceDirs : IsPrefix(d, parent)

\* C27: for a non-empty list of merge sources the base path given to the
\* renderer is the deepest directory that is an ancestor of every source's
\* directory, whatever the order of the sources (sources in /d1/s and /d1
\* give /d1).
C27_MergeBase ==
    (mode = "merge" /\ input_paths # <<>> /\ html_doc # NoHtmlDoc) =>
        /\ CommonAncestor(base_url)
        /\ \A n \in 0..Len(input_paths[1].parent) :
              CommonAncestor(SubSeq(input_paths[1].parent, 1, n)) =>
                  n <= Len(base_url)

-----------------------------------------------------------------------------
(* Properties of the TOC of a composed document *)

\* the headings of the source body, in document order
BodyHeadings == ListedHeadings(ConvertedBody)

\* the headings the title page and the TOC add in front of the body
FrontHeadings ==
    (IF title_page_enabled THEN 1 ELSE 0) + (IF toc_html # <<>> THEN 1 ELSE 0)

\* C28: the TOC of a composed document has one entry per heading of the
\* source body, in order, and no other: the h1 of the TOC itself and the h1
\* of the title page stand in the document without being listed, whatever
\* toc_enabled and title_page_enabled are.
C28_TocListsBodyOnly ==
    (mode \in {"file", "merge"}
        /\ (pc = "render" \/ (pc = "done" /\ html_doc # NoHtmlDoc))) =>
        /\ Len(ListedHeadings(html_body)) = Len(BodyHeadings) + FrontHeadings
        /\ ~toc_enabled => toc_html = <<>>
        /\ toc_enabled =>
              /\ Len(headers) = Len(BodyHeadings)
              /\ toc_html = <<>> <=> BodyHeadings = <<>>
              /\ toc_html # <<>> =>
                    /\ Len(toc_html[2].items) = Len(BodyHeadings)
                    /\ \A i \in DOMAIN BodyHeadings :
                          toc_html[2].items[i].label =
                              HtmlEscape(HeaderText(BodyHeadings[i].content))

\* C28 happens: a document with a title page, a TOC and a heading in its
\* body went to the renderer
C28_Witness ==
    /\ pc = "done"
    /\ outcome = "ok"
    /\ toc_enabled
    /\ title_page_enabled
    /\ Len(BodyHeadings) = 1
    /\ Len(ListedHeadings(html_body)) = 3
    /\ Len(toc_html[2].items) = 1

-----------------------------------------------------------------------------
(* Properties of the destination *)

\* C29: a convert_file or convert_merge call that fails with
\* InvalidMarkdownError leaves the destination file and its parent directory
\* as they were before the call; the directory is created and the PDF is
\* written only after every source has been read and converted.
C29_DestinationUntouched ==
    (mode \in {"file", "merge"}) =>
        /\ outcome = "InvalidMarkdownError" => destination.now = destination.before
        /\ destination.now # destination.before =>
              /\ pc = "done"
              /\ html_doc # NoHtmlDoc
              /\ input_paths # <<>>
              /\ file_idx > Len(input_paths)
              /\ Len(html_bodies) = Len(input_paths)

\* C29 happens: a merge failed on a missing image of its second source,
\* with no output directory before the call
C29_Witness ==
    /\ mode = "merge"
    /\ pc = "done"
    /\ outcome = "InvalidMarkdownError"
    /\ file_idx = 2
    /\ Len(html_bodies) = 1
    /\ inner.ref # NoRef
    /\ destination.before = OnDisk(FALSE, "absent")

-----------------------------------------------------------------------------
(* Properties of the destinations of a batch *)

\* the last component of a path
BaseName(path) == path[Len(path)]

\* C30: with preserve_structure true each destination lies under the output
\* directory where its file lies under the input directory, and different
\* files get different destinations; with preserve_structure false each
\* destination lies directly in the output directory and files of one base
\* name in different subdirectories get one destination.
C30_Destinations ==
    (mode = "directory" /\ pc \in {"convert", "returned"}) =>
        \A i \in DOMAIN results :
            /\ preserve_structure =>
                  /\ Parent(results[i].output) = Parent(results[i].input)
                  /\ \A j \in DOMAIN results :
                        results[i].input # results[j].input =>
                            results[i].output # results[j].output
            /\ ~preserve_structure =>
                  /\ Len(results[i].output) = 1
                  /\ \A j \in DOMAIN results :
                        BaseName(results[i].input) = BaseName(results[j].input) =>
                            results[i].output = results[j].output

====
